---- MODULE Spec2Model ----
(***************************************************************************)
(* Load-test engine of DeviceControllerCLI: the device lifecycle actor     *)
(* (device/device.go, device/http.go, the broker client), the runner with  *)
(* its shutdown protocol, termination watcher and event-consuming loop     *)
(* (runner/runner.go, cmd/root.go) and the workload distributor            *)
(* (providers/stops.go).                                                   *)
(*                                                                         *)
(* Every goroutine is a process with a program counter.  An action runs a  *)
(* goroutine from one point where it waits for, or acts on, something      *)
(* outside itself (a channel operation, a collaborator call being issued,  *)
(* a collaborator call returning) to the next such point; the statements   *)
(* in between touch only the goroutine's own device and run in source      *)
(* order inside the action.                                                *)
(***************************************************************************)
EXTENDS Integers, Sequences, FiniteSets, TLC

\* ------------------------------------------------------------------ bounds
\* cfg.Devices: the number of mock devices of the run.
NumDevices == 2
\* Events an outside producer may put on Runner.EventCh (aggregator runs).
MaxInjected == 4
\* Firings of the 1-second sampling ticker (aggregator runs).
MaxTicks == 7
\* Inbound broker messages over all devices (aggregator runs).
MaxMsgs == 3
\* Largest device count handed to AssignProviders (distributor runs).
MaxAssign == 4
\* Forced refreshes the user triggers in a run (single-device runs).
MaxRefresh == 1
\* Calls of GetHTTPLog and GetMQTTMsgs in a run (reader runs).
MaxSnaps == 3

\* ------------------------------------------------------- program constants
\* len(Stats.mqttWindow)
WindowLen == 5
\* make(chan device.Event, cfg.Devices*4)
ChanFactor == 4
\* len(steps) in MockDevice.Run
NumSteps == 8

Dev == 1..NumDevices

VARIABLES
    \* ---- device.MockDevice, one per device
    State,        \* d.State
    ErrorMsg,     \* d.ErrorMsg: <<>> when empty, else <<step name, error>>
    HTTPLog,      \* d.HTTPLog
    MQTTMsgs,     \* d.MQTTMsgs
    MQTTCount,    \* d.MQTTCount
    stopCh,       \* d.stopCh: "open" | "closed"
    doneCh,       \* d.doneCh: "open" | "closed"
    client,       \* d.mqttClient.client # nil
    broker,       \* the broker connection made by connect(): none|connecting|connected|lost|closed
    pc,           \* position of the goroutine running d.Run
    step,         \* index of the loop over steps in d.Run
    \* ---- history of a device (not program state)
    stateTrace,   \* every value d.State has held, in order
    ops,          \* every collaborator operation d.Run has invoked, in order
    emitted,      \* every event d.Run has sent on the event channel, in order
    rets,         \* the result of every step function that has returned ("" for nil)
    \* ---- runner.Runner and runner.Stats
    StopCh,       \* r.StopCh: "open" | "closed"
    EventCh,      \* r.EventCh: the buffered events
    ActiveDevices,
    ErrorCount,
    clamped,      \* history: a became-done event found ActiveDevices at 0
    MQTTTotal,
    mqttWindow,
    windowIdx,
    lastTotal,    \* local of processEvents
    evPc,         \* position of the goroutine running r.processEvents
    \* ---- the two goroutines that call r.Shutdown
    thPc,         \* position of the watcher goroutine and of runLoadTest
    thDev,        \* index of the loop over r.Devices in r.Shutdown
    quitReq,      \* program.Quit() has been called
    proc,         \* the process: "running" | "panicked" | "exited"
    \* ---- history of the runner (not program state)
    atStop,       \* what held when r.StopCh was closed
    deltas,       \* every delta the ticker branch has stored, in order
    injected,     \* events sent on r.EventCh by a producer other than a device
    ticks,        \* firings of the ticker consumed
    tickCh,       \* mqttTicker.C: the firings waiting in the ticker's channel (0 or 1)
    fired,        \* history: firings of the ticker so far
    \* ---- MockDevice.ForceRefresh, called from goroutines the TUI starts
    refreshing,   \* refresh requests in flight, per device
    refreshAt,    \* history: d.State at each refresh request issued, per device
    refreshRets,  \* history: the result of every ForceRefresh that returned, per device
    \* ---- providers.AssignProviders
    asg,
    \* ---- one call of a step function of httpClient, by itself
    httpCall,
    \* ---- the readers of a device's logs
    snaps         \* every slice GetHTTPLog and GetMQTTMsgs have returned, in order

devVars == <<State, ErrorMsg, HTTPLog, stopCh, doneCh, client, broker, pc, step,
             stateTrace, ops, emitted, rets>>
refVars == <<refreshing, refreshAt, refreshRets>>
msgVars == <<MQTTMsgs, MQTTCount>>
statVars == <<ActiveDevices, ErrorCount, clamped>>
rateVars == <<MQTTTotal, mqttWindow, windowIdx, lastTotal, deltas, ticks, tickCh, fired>>
thVars == <<thPc, thDev, quitReq>>
vars == <<State, ErrorMsg, HTTPLog, MQTTMsgs, MQTTCount, stopCh, doneCh, client,
          broker, pc, step, stateTrace, ops, emitted, rets, StopCh, EventCh,
          ActiveDevices, ErrorCount, clamped, MQTTTotal, mqttWindow, windowIdx,
          lastTotal, evPc, thPc, thDev, quitReq, proc, atStop, deltas, injected, ticks,
          refreshing, refreshAt, refreshRets, asg, httpCall, tickCh, fired, snaps>>

\* ------------------------------------------------------------ device.State
States == {"Init", "Registering", "Authenticating", "Linking", "Configuring",
           "Active", "Error", "Done"}

\* ------------------------------------------------------- the steps of Run
StepName(k) ==
    CASE k = 1 -> "register device"
      [] k = 2 -> "register user"
      [] k = 3 -> "login"
      [] k = 4 -> "link device"
      [] k = 5 -> "set config"
      [] k = 6 -> "get config"
      [] k = 7 -> "connect mqtt"
      [] k = 8 -> "subscribe mqtt"

\* The steps served by httpClient; steps 7 and 8 are served by mqttClient.
IsHTTPStep(k) == k \in 1..6

\* A variant of StepState in which linkDevice sets the state of registerDevice.
StepStateRelink(k) ==
    CASE k = 1 -> "Registering"
      [] k = 3 -> "Authenticating"
      [] k = 4 -> "Registering"
      [] k = 5 -> "Configuring"
      [] OTHER -> ""

\* The state a step function sets on entry ("" when it sets none).
StepState(k) ==
    CASE k = 1 -> "Registering"
      [] k = 3 -> "Authenticating"
      [] k = 4 -> "Linking"
      [] k = 5 -> "Configuring"
      [] OTHER -> ""

StepMethod(k) == IF k = 6 THEN "GET" ELSE "POST"

StepPath(k) ==
    CASE k = 1 -> "/device/register"
      [] k = 2 -> "/user/register"
      [] k = 3 -> "/auth/login"
      [] k = 4 -> "/user/device/link"
      [] k = 5 -> "/device/{id}/config"
      [] k = 6 -> "/device/{id}/config"

\* What the backend may answer: 0 stands for no response at all (client.Do
\* returned an error: connection refused, context deadline exceeded).
Responses == {0, 200, 500}

\* ok := resp.StatusCode >= 200 && resp.StatusCode < 300
LogOK(status) == status >= 200 /\ status < 300

\* The statuses a step function accepts.
StepAccepts(k, status) ==
    IF k = 6 THEN status = 200 ELSE status \in {200, 201}

\* The statuses logout accepts.
LogoutAccepts(status) == status \in {200, 204}

\* The error a step served by httpClient returns for a response.
HTTPErr(k, status) ==
    IF status = 0 THEN "transport error"
    ELSE IF StepAccepts(k, status) THEN ""
    ELSE "returned status"

\* The entry doWithTimeout appends for a response.
LogEntry(method, path, status) ==
    [method |-> method, path |-> path, status |-> status, ok |-> LogOK(status)]

\* What a broker operation may end with.
BrokerOutcomes == {"ok", "timeout", "error"}

\* ------------------------------------------------------------- channels
\* case <-ch: of a select with a default: taken when ch is closed.
Closed(ch) == ch = "closed"

\* A variant of EventCap with one slot for each device.
EventCapPerDevice == NumDevices

\* cap(r.EventCh)
EventCap == NumDevices * ChanFactor

\* Stats.TotalDevices: set to cfg.Devices by runner.New and written nowhere else.
TotalDevices == NumDevices

\* eventCh <- ev can proceed.
CanSend == Len(EventCh) < EventCap

Running == proc = "running"

Event(d, type) == [dev |-> d, type |-> type]

\* -------------------------------------------------------------- Init
\* The runner after runner.New, Start and WatchSignals: every goroutine exists
\* and none has taken a step.
InitRunner ==
    /\ State = [d \in Dev |-> "Init"]
    /\ ErrorMsg = [d \in Dev |-> <<>>]
    /\ HTTPLog = [d \in Dev |-> <<>>]
    /\ MQTTMsgs = [d \in Dev |-> <<>>]
    /\ MQTTCount = [d \in Dev |-> 0]
    /\ stopCh = [d \in Dev |-> "open"]
    /\ doneCh = [d \in Dev |-> "open"]
    /\ client = [d \in Dev |-> FALSE]
    /\ broker = [d \in Dev |-> "none"]
    /\ pc = [d \in Dev |-> "loop"]
    /\ step = [d \in Dev |-> 1]
    /\ stateTrace = [d \in Dev |-> <<"Init">>]
    /\ ops = [d \in Dev |-> <<>>]
    /\ emitted = [d \in Dev |-> <<>>]
    /\ rets = [d \in Dev |-> <<>>]
    /\ StopCh = "open"
    /\ EventCh = <<>>
    /\ ActiveDevices = 0
    /\ ErrorCount = 0
    /\ clamped = FALSE
    /\ MQTTTotal = 0
    /\ mqttWindow = [i \in 0..(WindowLen - 1) |-> 0]
    /\ windowIdx = 0
    /\ lastTotal = 0
    /\ evPc = "select"
    /\ thPc = [t \in {"watcher", "main"} |-> IF t = "watcher" THEN "select" ELSE "tui"]
    /\ thDev = [t \in {"watcher", "main"} |-> 1]
    /\ quitReq = FALSE
    /\ proc = "running"
    /\ atStop = [closed |-> FALSE, allActive |-> FALSE]
    /\ deltas = <<>>
    /\ injected = 0
    /\ ticks = 0
    /\ tickCh = 0
    /\ fired = 0
    /\ snaps = <<>>
    /\ refreshing = [d \in Dev |-> 0]
    /\ refreshAt = [d \in Dev |-> <<>>]
    /\ refreshRets = [d \in Dev |-> <<>>]

Init ==
    /\ InitRunner
    /\ asg = [pc |-> "idle"]
    /\ httpCall = [pc |-> "idle"]

\* ------------------------------------------------------------ MockDevice
\* Everything a step of d.Run leaves alone outside the device and the channel.
runnerRest == <<StopCh, statVars, rateVars, evPc, thVars, proc, atStop, injected,
                refVars, asg, httpCall>>

\* A variant of Cancelled in which the first iteration skips the check.
CancelledAfterFirst(d) == Closed(stopCh[d]) /\ step[d] > 1

\* case <-d.stopCh: of the select at the head of the loop over steps.
Cancelled(d) == Closed(stopCh[d])

\* The position after step k has returned nil: the next iteration, or the code
\* after the loop.
AfterStep(k) == IF k = NumSteps THEN "activate" ELSE "loop"

\* The step function returned nil: on to the next iteration.
StepDone(d) ==
    /\ pc' = [pc EXCEPT ![d] = AfterStep(step[d])]
    /\ step' = [step EXCEPT ![d] = @ + 1]
    /\ UNCHANGED <<State, ErrorMsg, stateTrace>>

\* A variant of StepFailed in which Run records the error and goes on to the
\* next step.
StepFailedContinue(d, e) ==
    /\ State' = [State EXCEPT ![d] = "Error"]
    /\ stateTrace' = [stateTrace EXCEPT ![d] = Append(@, "Error")]
    /\ ErrorMsg' = [ErrorMsg EXCEPT ![d] = <<StepName(step[d]), e>>]
    /\ pc' = [pc EXCEPT ![d] = AfterStep(step[d])]
    /\ step' = [step EXCEPT ![d] = @ + 1]

\* A variant of StepFailed that sets the state in one section under d.mu and
\* leaves the error text to a later one.
StepFailedStateFirst(d, e) ==
    /\ State' = [State EXCEPT ![d] = "Error"]
    /\ stateTrace' = [stateTrace EXCEPT ![d] = Append(@, "Error")]
    /\ pc' = [pc EXCEPT ![d] = "emitError"]
    /\ UNCHANGED <<ErrorMsg, step>>

\* A variant of StepFailed in which the failure of one device puts every device
\* of the fleet into Error.
StepFailedFleet(d, e) ==
    /\ State' = [x \in Dev |-> "Error"]
    /\ stateTrace' = [stateTrace EXCEPT ![d] = Append(@, "Error")]
    /\ ErrorMsg' = [ErrorMsg EXCEPT ![d] = <<StepName(step[d]), e>>]
    /\ pc' = [pc EXCEPT ![d] = "emitError"]
    /\ UNCHANGED step

\* The step function returned the error e:
\* d.setError(fmt.Sprintf("%s: %v", step.name, err)), which sets State and
\* ErrorMsg in one section under d.mu; the event is sent next.
StepFailed(d, e) ==
    /\ State' = [State EXCEPT ![d] = "Error"]
    /\ stateTrace' = [stateTrace EXCEPT ![d] = Append(@, "Error")]
    /\ ErrorMsg' = [ErrorMsg EXCEPT ![d] = <<StepName(step[d]), e>>]
    /\ pc' = [pc EXCEPT ![d] = "emitError"]
    /\ UNCHANGED step

\* The head of one iteration of the loop over steps: the cancellation check
\* (cancelled: setState(StateDone), return, the deferred close(d.doneCh)) and,
\* when not cancelled, the entry of the step function up to the point where its
\* request is in flight (registerDevice, login, linkDevice and setConfig set
\* the state first; connect creates the client and starts connecting;
\* subscribe without a client fails at once).
RunLoop(d) ==
    /\ Running
    /\ pc[d] = "loop"
    /\ IF Cancelled(d)
       THEN /\ State' = [State EXCEPT ![d] = "Done"]
            /\ stateTrace' = [stateTrace EXCEPT ![d] = Append(@, "Done")]
            /\ doneCh' = [doneCh EXCEPT ![d] = "closed"]
            /\ pc' = [pc EXCEPT ![d] = "returned"]
            /\ UNCHANGED <<ErrorMsg, step, ops, broker, rets>>
       ELSE IF step[d] = 8 /\ ~client[d]
       THEN /\ StepFailed(d, "mqtt not connected")
            /\ rets' = [rets EXCEPT ![d] = Append(@, "mqtt not connected")]
            /\ UNCHANGED <<ops, broker, doneCh>>
       ELSE /\ IF StepState(step[d]) # ""
               THEN /\ State' = [State EXCEPT ![d] = StepState(step[d])]
                    /\ stateTrace' = [stateTrace EXCEPT ![d] = Append(@, StepState(step[d]))]
               ELSE UNCHANGED <<State, stateTrace>>
            /\ ops' = [ops EXCEPT ![d] = Append(@, StepName(step[d]))]
            /\ broker' = [broker EXCEPT ![d] = IF step[d] = 7 THEN "connecting" ELSE @]
            /\ pc' = [pc EXCEPT ![d] = "call"]
            /\ UNCHANGED <<ErrorMsg, step, doneCh, rets>>
    /\ UNCHANGED <<HTTPLog, stopCh, client, emitted>>
    /\ UNCHANGED <<msgVars, snaps, EventCh, runnerRest>>

\* A request of steps 1..6 ends: doWithTimeout appends the log entry, the step
\* function turns the response into its result and Run acts on the result.
StepReturnHTTP(d) ==
    /\ Running
    /\ pc[d] = "call"
    /\ IsHTTPStep(step[d])
    /\ \E status \in Responses :
         /\ HTTPLog' = [HTTPLog EXCEPT ![d] =
                Append(@, LogEntry(StepMethod(step[d]), StepPath(step[d]), status))]
         /\ rets' = [rets EXCEPT ![d] = Append(@, HTTPErr(step[d], status))]
         /\ IF HTTPErr(step[d], status) = ""
            THEN StepDone(d)
            ELSE StepFailed(d, HTTPErr(step[d], status))
    /\ UNCHANGED <<stopCh, doneCh, client, broker, ops, emitted>>
    /\ UNCHANGED <<msgVars, snaps, EventCh, runnerRest>>

\* The error mqttClient.connect returns for an outcome of the connect token.
ConnectErr(out) ==
    CASE out = "ok" -> ""
      [] out = "timeout" -> "mqtt connect timeout"
      [] out = "error" -> "mqtt connect"

\* The broker connection after connect has returned: on a timeout the client
\* connect() created is dropped while it is still connecting.
ConnectBroker(out) ==
    CASE out = "ok" -> "connected"
      [] out = "timeout" -> "connecting"
      [] out = "error" -> "none"

\* mqttClient.connect returns: the token completed in time without error
\* (m.client is set), completed with an error, or did not complete within
\* 10 seconds (m.client stays nil).
ConnectReturn(d) ==
    /\ Running
    /\ pc[d] = "call"
    /\ step[d] = 7
    /\ \E out \in BrokerOutcomes :
         /\ client' = [client EXCEPT ![d] = (out = "ok")]
         /\ broker' = [broker EXCEPT ![d] = ConnectBroker(out)]
         /\ rets' = [rets EXCEPT ![d] = Append(@, ConnectErr(out))]
         /\ IF ConnectErr(out) = ""
            THEN StepDone(d)
            ELSE StepFailed(d, ConnectErr(out))
    /\ UNCHANGED <<HTTPLog, stopCh, doneCh, ops, emitted>>
    /\ UNCHANGED <<msgVars, snaps, EventCh, runnerRest>>

\* The error mqttClient.subscribe returns for an outcome of the subscribe token.
SubscribeErr(out) ==
    CASE out = "ok" -> ""
      [] out = "timeout" -> "mqtt subscribe timeout"
      [] out = "error" -> "mqtt subscribe"

\* mqttClient.subscribe returns.
SubscribeReturn(d) ==
    /\ Running
    /\ pc[d] = "call"
    /\ step[d] = 8
    /\ \E out \in BrokerOutcomes :
         /\ rets' = [rets EXCEPT ![d] = Append(@, SubscribeErr(out))]
         /\ IF SubscribeErr(out) = ""
            THEN StepDone(d)
            ELSE StepFailed(d, SubscribeErr(out))
    /\ UNCHANGED <<HTTPLog, stopCh, doneCh, client, broker, ops, emitted>>
    /\ UNCHANGED <<msgVars, snaps, EventCh, runnerRest>>

\* A variant of Emit over a channel that hands out the newest event first.
EmitAtHead(d, at, type, next) ==
    /\ Running
    /\ pc[d] = at
    /\ CanSend
    /\ EventCh' = <<Event(d, type)>> \o EventCh
    /\ emitted' = [emitted EXCEPT ![d] = Append(@, type)]
    /\ pc' = [pc EXCEPT ![d] = next]
    /\ doneCh' = [doneCh EXCEPT ![d] = IF next = "returned" THEN "closed" ELSE @]
    /\ UNCHANGED <<State, ErrorMsg, HTTPLog, stopCh, client, broker, step, stateTrace, ops,
                   rets>>
    /\ UNCHANGED <<msgVars, snaps, runnerRest>>

\* A variant of Emit in which d.doneCh is closed after the first send, whether
\* or not Run returns.
EmitThenClose(d, at, type, next) ==
    /\ Running
    /\ pc[d] = at
    /\ CanSend
    /\ EventCh' = Append(EventCh, Event(d, type))
    /\ emitted' = [emitted EXCEPT ![d] = Append(@, type)]
    /\ pc' = [pc EXCEPT ![d] = next]
    /\ doneCh' = [doneCh EXCEPT ![d] = "closed"]
    /\ UNCHANGED <<State, ErrorMsg, HTTPLog, stopCh, client, broker, step, stateTrace, ops,
                   rets>>
    /\ UNCHANGED <<msgVars, snaps, runnerRest>>

\* eventCh <- Event{DeviceID: d.DeviceID, Type: type}, then on to position next;
\* when Run returns after the send, the deferred close(d.doneCh) runs.
Emit(d, at, type, next) ==
    /\ Running
    /\ pc[d] = at
    /\ CanSend
    /\ EventCh' = Append(EventCh, Event(d, type))
    /\ emitted' = [emitted EXCEPT ![d] = Append(@, type)]
    /\ pc' = [pc EXCEPT ![d] = next]
    /\ doneCh' = [doneCh EXCEPT ![d] = IF next = "returned" THEN "closed" ELSE @]
    /\ UNCHANGED <<State, ErrorMsg, HTTPLog, stopCh, client, broker, step, stateTrace, ops,
                   rets>>
    /\ UNCHANGED <<msgVars, snaps, runnerRest>>

\* eventCh <- Event{Type: EventError}; return
EmitError(d) == Emit(d, "emitError", "EventError", "returned")

\* A variant of SetActive in which the code after the loop checks for
\* cancellation first and, when cancelled, finishes as the loop does.
SetActiveUnlessCancelled(d) ==
    /\ Running
    /\ pc[d] = "activate"
    /\ IF Closed(stopCh[d])
       THEN /\ State' = [State EXCEPT ![d] = "Done"]
            /\ stateTrace' = [stateTrace EXCEPT ![d] = Append(@, "Done")]
            /\ doneCh' = [doneCh EXCEPT ![d] = "closed"]
            /\ pc' = [pc EXCEPT ![d] = "returned"]
       ELSE /\ State' = [State EXCEPT ![d] = "Active"]
            /\ stateTrace' = [stateTrace EXCEPT ![d] = Append(@, "Active")]
            /\ pc' = [pc EXCEPT ![d] = "emitActive"]
            /\ UNCHANGED doneCh
    /\ UNCHANGED <<ErrorMsg, HTTPLog, stopCh, client, broker, step, ops, emitted, rets>>
    /\ UNCHANGED <<msgVars, snaps, EventCh, runnerRest>>

\* d.State = StateActive under d.mu, after the loop over steps.
SetActive(d) ==
    /\ Running
    /\ pc[d] = "activate"
    /\ State' = [State EXCEPT ![d] = "Active"]
    /\ stateTrace' = [stateTrace EXCEPT ![d] = Append(@, "Active")]
    /\ pc' = [pc EXCEPT ![d] = "emitActive"]
    /\ UNCHANGED <<ErrorMsg, HTTPLog, stopCh, doneCh, client, broker, step, ops, emitted,
                   rets>>
    /\ UNCHANGED <<msgVars, snaps, EventCh, runnerRest>>

\* eventCh <- Event{Type: EventActive}
EmitActive(d) == Emit(d, "emitActive", "EventActive", "wait")

\* A variant of WaitStop in which cleanup sets Done before it logs out.
WaitStopDoneFirst(d) ==
    /\ Running
    /\ pc[d] = "wait"
    /\ Closed(stopCh[d])
    /\ State' = [State EXCEPT ![d] = "Done"]
    /\ stateTrace' = [stateTrace EXCEPT ![d] = Append(@, "Done")]
    /\ ops' = [ops EXCEPT ![d] = Append(@, "logout")]
    /\ pc' = [pc EXCEPT ![d] = "logout"]
    /\ UNCHANGED <<ErrorMsg, HTTPLog, stopCh, doneCh, client, broker, step, emitted, rets>>
    /\ UNCHANGED <<msgVars, snaps, EventCh, runnerRest>>

\* <-d.stopCh returns and cleanup issues the logout request.
WaitStop(d) ==
    /\ Running
    /\ pc[d] = "wait"
    /\ Closed(stopCh[d])
    /\ ops' = [ops EXCEPT ![d] = Append(@, "logout")]
    /\ pc' = [pc EXCEPT ![d] = "logout"]
    /\ UNCHANGED <<State, ErrorMsg, HTTPLog, stopCh, doneCh, client, broker, step,
                   stateTrace, emitted, rets>>
    /\ UNCHANGED <<msgVars, snaps, EventCh, runnerRest>>

\* A variant of LogoutReturn in which cleanup treats a failed logout as Run
\* treats a failed step.
LogoutReturnChecked(d) ==
    /\ Running
    /\ pc[d] = "logout"
    /\ \E status \in Responses :
         /\ HTTPLog' = [HTTPLog EXCEPT ![d] = Append(@, LogEntry("POST", "/auth/logout", status))]
         /\ IF LogoutAccepts(status)
            THEN /\ pc' = [pc EXCEPT ![d] = "disconnect"]
                 /\ UNCHANGED <<State, ErrorMsg, stateTrace>>
            ELSE /\ State' = [State EXCEPT ![d] = "Error"]
                 /\ stateTrace' = [stateTrace EXCEPT ![d] = Append(@, "Error")]
                 /\ ErrorMsg' = [ErrorMsg EXCEPT ![d] = <<"logout", "returned status">>]
                 /\ pc' = [pc EXCEPT ![d] = "emitError"]
    /\ UNCHANGED <<stopCh, doneCh, client, broker, step, ops, emitted, rets>>
    /\ UNCHANGED <<msgVars, snaps, EventCh, runnerRest>>

\* The logout request ends (its log entry is appended); cleanup discards the
\* result of logout.
LogoutReturn(d) ==
    /\ Running
    /\ pc[d] = "logout"
    /\ \E status \in Responses :
         HTTPLog' = [HTTPLog EXCEPT ![d] = Append(@, LogEntry("POST", "/auth/logout", status))]
    /\ pc' = [pc EXCEPT ![d] = "disconnect"]
    /\ UNCHANGED <<State, ErrorMsg, stopCh, doneCh, client, broker, step, stateTrace,
                   ops, emitted, rets>>
    /\ UNCHANGED <<msgVars, snaps, EventCh, runnerRest>>

\* m.client.IsConnected(): the connection made by connect() is up.
IsConnected(d) == broker[d] = "connected"

\* The broker connection of a connected client goes down (the link, or the
\* broker): from then on IsConnected() is false.
ConnectionLost(d) ==
    /\ Running
    /\ client[d]
    /\ broker[d] = "connected"
    /\ broker' = [broker EXCEPT ![d] = "lost"]
    /\ UNCHANGED <<State, ErrorMsg, HTTPLog, stopCh, doneCh, client, pc, step, stateTrace,
                   ops, emitted, rets>>
    /\ UNCHANGED <<msgVars, snaps, EventCh, runnerRest>>

\* The entry of mqttClient.disconnect: with a client that is connected, the
\* "offline" presence is published and its token waited for; without one,
\* disconnect returns at once.
PublishOffline(d) ==
    /\ Running
    /\ pc[d] = "disconnect"
    /\ IF client[d] /\ IsConnected(d)
       THEN /\ ops' = [ops EXCEPT ![d] = Append(@, "publish offline")]
            /\ pc' = [pc EXCEPT ![d] = "close"]
       ELSE /\ pc' = [pc EXCEPT ![d] = "setDone"]
            /\ UNCHANGED ops
    /\ UNCHANGED <<State, ErrorMsg, HTTPLog, stopCh, doneCh, client, broker, step,
                   stateTrace, emitted, rets>>
    /\ UNCHANGED <<msgVars, snaps, EventCh, runnerRest>>

\* m.client.Disconnect(500) after the publish: the client closes the
\* connection, or what is left of it, and disconnect returns.
Disconnect(d) ==
    /\ Running
    /\ pc[d] = "close"
    /\ ops' = [ops EXCEPT ![d] = Append(@, "disconnect")]
    /\ broker' = [broker EXCEPT ![d] = "closed"]
    /\ pc' = [pc EXCEPT ![d] = "setDone"]
    /\ UNCHANGED <<State, ErrorMsg, HTTPLog, stopCh, doneCh, client, step, stateTrace,
                   emitted, rets>>
    /\ UNCHANGED <<msgVars, snaps, EventCh, runnerRest>>

\* d.setState(StateDone) of cleanup.
SetDone(d) ==
    /\ Running
    /\ pc[d] = "setDone"
    /\ State' = [State EXCEPT ![d] = "Done"]
    /\ stateTrace' = [stateTrace EXCEPT ![d] = Append(@, "Done")]
    /\ pc' = [pc EXCEPT ![d] = "emitDone"]
    /\ UNCHANGED <<ErrorMsg, HTTPLog, stopCh, doneCh, client, broker, step, ops, emitted,
                   rets>>
    /\ UNCHANGED <<msgVars, snaps, EventCh, runnerRest>>

\* eventCh <- Event{Type: EventDone}; cleanup and Run return
EmitDone(d) == Emit(d, "emitDone", "EventDone", "returned")

\* <-d.doneCh of MockDevice.Wait can proceed: the caller is released.
WaitReturns(d) == Closed(doneCh[d])

Run(d) ==
    \/ RunLoop(d)
    \/ StepReturnHTTP(d)
    \/ ConnectReturn(d)
    \/ SubscribeReturn(d)
    \/ EmitError(d)
    \/ SetActive(d)
    \/ EmitActive(d)
    \/ WaitStop(d)
    \/ LogoutReturn(d)
    \/ PublishOffline(d)
    \/ Disconnect(d)
    \/ SetDone(d)
    \/ EmitDone(d)

\* ------------------------------------------------------- Runner.Shutdown
Threads == {"watcher", "main"}

\* Everything a step of a thread in r.Shutdown leaves alone besides the channels.
shutdownRest == <<State, ErrorMsg, HTTPLog, doneCh, client, broker, pc, step,
                  stateTrace, ops, emitted, rets, msgVars, snaps, EventCh, statVars, rateVars,
                  evPc, quitReq, injected, refVars, asg, httpCall>>

\* Where a thread continues after r.Shutdown has returned: the watcher calls
\* program.Quit(), runLoadTest calls deviceWg.Wait().
AfterShutdown(t) == IF t = "watcher" THEN "quit" ELSE "wait"

\* Where a thread continues after d.Shutdown() of device i has returned.
AfterDevice(t, i) == IF i = NumDevices THEN AfterShutdown(t) ELSE "ds_select"

\* close(ch) by a thread: closing a closed channel panics, and a panic in a
\* goroutine without recover ends the process.
CloseResult(ch) == IF ch = "closed" THEN "panic" ELSE "closed"

\* select { case <-r.StopCh: default: ... } of Runner.Shutdown.
ShutdownSelect(t) ==
    /\ Running
    /\ thPc[t] = "rs_select"
    /\ thPc' = [thPc EXCEPT ![t] = IF Closed(StopCh) THEN "ds_select" ELSE "rs_close"]
    /\ thDev' = [thDev EXCEPT ![t] = 1]
    /\ UNCHANGED <<StopCh, stopCh, proc, atStop, shutdownRest>>

\* close(r.StopCh) in the default branch.
ShutdownClose(t) ==
    /\ Running
    /\ thPc[t] = "rs_close"
    /\ IF CloseResult(StopCh) = "panic"
       THEN /\ proc' = "panicked"
            /\ UNCHANGED <<StopCh, atStop, thPc>>
       ELSE /\ StopCh' = "closed"
            /\ atStop' = [closed |-> TRUE,
                          allActive |-> \A d \in Dev : State[d] = "Active"]
            /\ thPc' = [thPc EXCEPT ![t] = "ds_select"]
            /\ UNCHANGED proc
    /\ UNCHANGED <<stopCh, thDev, shutdownRest>>

\* select { case <-d.stopCh: default: ... } of MockDevice.Shutdown, for the
\* device the loop over r.Devices is at.
DeviceSelect(t) ==
    /\ Running
    /\ thPc[t] = "ds_select"
    /\ IF Closed(stopCh[thDev[t]])
       THEN /\ thPc' = [thPc EXCEPT ![t] = AfterDevice(t, thDev[t])]
            /\ thDev' = [thDev EXCEPT ![t] = IF @ = NumDevices THEN @ ELSE @ + 1]
       ELSE /\ thPc' = [thPc EXCEPT ![t] = "ds_close"]
            /\ UNCHANGED thDev
    /\ UNCHANGED <<StopCh, stopCh, proc, atStop, shutdownRest>>

\* close(d.stopCh) in the default branch.
DeviceClose(t) ==
    /\ Running
    /\ thPc[t] = "ds_close"
    /\ IF CloseResult(stopCh[thDev[t]]) = "panic"
       THEN /\ proc' = "panicked"
            /\ UNCHANGED <<stopCh, thPc, thDev>>
       ELSE /\ stopCh' = [stopCh EXCEPT ![thDev[t]] = "closed"]
            /\ thPc' = [thPc EXCEPT ![t] = AfterDevice(t, thDev[t])]
            /\ thDev' = [thDev EXCEPT ![t] = IF @ = NumDevices THEN @ ELSE @ + 1]
            /\ UNCHANGED proc
    /\ UNCHANGED <<StopCh, atStop, shutdownRest>>

Shutdown(t) ==
    \/ ShutdownSelect(t)
    \/ ShutdownClose(t)
    \/ DeviceSelect(t)
    \/ DeviceClose(t)

\* ---------------------------------------------- WatchSignals, runLoadTest
\* Everything a step of the watcher or of runLoadTest outside r.Shutdown leaves alone.
threadRest == <<devVars, msgVars, snaps, StopCh, EventCh, statVars, rateVars, evPc, thDev,
                atStop, injected, refVars, asg, httpCall>>

\* case <-sigCh: of the watcher's select (SIGINT or SIGTERM).
WatcherSignal ==
    /\ Running
    /\ thPc["watcher"] = "select"
    /\ thPc' = [thPc EXCEPT !["watcher"] = "rs_select"]
    /\ UNCHANGED <<quitReq, proc, threadRest>>

\* case <-durationCh: of the watcher's select (armed when duration > 0).
WatcherDuration ==
    /\ Running
    /\ thPc["watcher"] = "select"
    /\ thPc' = [thPc EXCEPT !["watcher"] = "rs_select"]
    /\ UNCHANGED <<quitReq, proc, threadRest>>

\* case <-r.StopCh: return
WatcherStopped ==
    /\ Running
    /\ thPc["watcher"] = "select"
    /\ Closed(StopCh)
    /\ thPc' = [thPc EXCEPT !["watcher"] = "end"]
    /\ UNCHANGED <<quitReq, proc, threadRest>>

\* program.Quit() after r.Shutdown() in the watcher.
WatcherQuit ==
    /\ Running
    /\ thPc["watcher"] = "quit"
    /\ quitReq' = TRUE
    /\ thPc' = [thPc EXCEPT !["watcher"] = "end"]
    /\ UNCHANGED <<proc, threadRest>>

\* p.Run() returns because the user quit (q, ctrl+c) or the TUI itself was
\* interrupted; runLoadTest goes on to r.Shutdown().
UserQuit ==
    /\ Running
    /\ thPc["main"] = "tui"
    /\ thPc' = [thPc EXCEPT !["main"] = "rs_select"]
    /\ UNCHANGED <<quitReq, proc, threadRest>>

\* p.Run() returns because program.Quit() was called.
ProgramQuit ==
    /\ Running
    /\ thPc["main"] = "tui"
    /\ quitReq
    /\ thPc' = [thPc EXCEPT !["main"] = "rs_select"]
    /\ UNCHANGED <<quitReq, proc, threadRest>>

\* deviceWg.Wait() returns, PrintCleanupSQL, runLoadTest returns: the process ends.
MainExit ==
    /\ Running
    /\ thPc["main"] = "wait"
    /\ \A d \in Dev : pc[d] = "returned"
    /\ thPc' = [thPc EXCEPT !["main"] = "end"]
    /\ proc' = "exited"
    /\ UNCHANGED <<quitReq, threadRest>>

\* ------------------------------------------------- Runner.processEvents
\* A variant of ActiveAfter in which became-active is not counted.
ActiveAfterUncounted(type, active) ==
    CASE type = "EventDone" -> IF active > 0 THEN active - 1 ELSE active
      [] OTHER -> active

\* A variant of ActiveAfter without the "if active > 0" test.
ActiveAfterUnguarded(type, active) ==
    CASE type = "EventActive" -> active + 1
      [] type = "EventDone" -> active - 1
      [] OTHER -> active

\* The counters after the switch over ev.Type.
ActiveAfter(type, active) ==
    CASE type = "EventActive" -> active + 1
      [] type = "EventDone" -> IF active > 0 THEN active - 1 ELSE active
      [] OTHER -> active

\* A variant of ErrorsAfter that counts became-done as an error too.
ErrorsAfterDone(type, errors) ==
    IF type \in {"EventError", "EventDone"} THEN errors + 1 ELSE errors

\* case device.EventError: r.Stats.ErrorCount.Add(1)
ErrorsAfter(type, errors) == IF type = "EventError" THEN errors + 1 ELSE errors

\* case ev, ok := <-r.EventCh: the switch and program.Send(ev).
ProcessEvent ==
    /\ Running
    /\ evPc = "select"
    /\ EventCh # <<>>
    /\ ActiveDevices' = ActiveAfter(Head(EventCh).type, ActiveDevices)
    /\ ErrorCount' = ErrorsAfter(Head(EventCh).type, ErrorCount)
    /\ clamped' = (clamped \/ (Head(EventCh).type = "EventDone" /\ ActiveDevices = 0))
    /\ EventCh' = Tail(EventCh)
    /\ UNCHANGED <<devVars, msgVars, snaps, StopCh, rateVars, evPc, thVars, proc, atStop,
                   injected, refVars, asg, httpCall>>

\* case <-r.StopCh: return
ProcessStop ==
    /\ Running
    /\ evPc = "select"
    /\ Closed(StopCh)
    /\ evPc' = "returned"
    /\ UNCHANGED <<devVars, msgVars, snaps, StopCh, EventCh, statVars, rateVars, thVars, proc,
                   atStop, injected, refVars, asg, httpCall>>

\* ------------------------------------------------------ the load-test run
Next ==
    \/ \E d \in Dev : Run(d)
    \/ \E t \in Threads : Shutdown(t)
    \/ WatcherSignal
    \/ WatcherDuration
    \/ WatcherStopped
    \/ WatcherQuit
    \/ UserQuit
    \/ ProgramQuit
    \/ MainExit
    \/ ProcessEvent
    \/ ProcessStop

Spec == Init /\ [][Next]_vars


\* -------------------------------------------------- MockDevice.ForceRefresh
\* The error httpClient.refresh returns for a response.
RefreshErr(status) ==
    IF status = 0 THEN "transport error"
    ELSE IF status \in {200, 201} THEN ""
    ELSE "returned status"

\* Refresh requests issued so far, over devices 1..n.
RECURSIVE RefreshesTo(_)
RefreshesTo(n) == IF n = 0 THEN 0 ELSE Len(refreshAt[n]) + RefreshesTo(n - 1)

\* The refresh key of the TUI: go func() { _ = d.ForceRefresh() }(), up to the
\* point where refresh has its request in flight.
RefreshCall(d) ==
    /\ Running
    /\ thPc["main"] = "tui"
    /\ RefreshesTo(NumDevices) < MaxRefresh
    /\ refreshing' = [refreshing EXCEPT ![d] = @ + 1]
    /\ refreshAt' = [refreshAt EXCEPT ![d] = Append(@, State[d])]
    /\ UNCHANGED <<devVars, msgVars, snaps, StopCh, EventCh, statVars, rateVars, evPc, thVars,
                   proc, atStop, injected, refreshRets, asg, httpCall>>

\* A variant of RefreshReturn in which a failed refresh is folded into the
\* lifecycle as a failed step is.
RefreshReturnFolded(d) ==
    /\ Running
    /\ refreshing[d] > 0
    /\ \E status \in Responses :
         /\ HTTPLog' = [HTTPLog EXCEPT ![d] = Append(@, LogEntry("POST", "/refresh/{id}", status))]
         /\ refreshRets' = [refreshRets EXCEPT ![d] = Append(@, RefreshErr(status))]
         /\ IF RefreshErr(status) = ""
            THEN UNCHANGED <<State, ErrorMsg, stateTrace>>
            ELSE /\ State' = [State EXCEPT ![d] = "Error"]
                 /\ stateTrace' = [stateTrace EXCEPT ![d] = Append(@, "Error")]
                 /\ ErrorMsg' = [ErrorMsg EXCEPT ![d] = <<"refresh", RefreshErr(status)>>]
    /\ refreshing' = [refreshing EXCEPT ![d] = @ - 1]
    /\ UNCHANGED <<stopCh, doneCh, client, broker, pc, step, ops, emitted, rets>>
    /\ UNCHANGED <<msgVars, snaps, StopCh, EventCh, statVars, rateVars, evPc, thVars, proc,
                   atStop, injected, refreshAt, asg, httpCall>>

\* The refresh request ends: doWithTimeout appends the log entry, refresh turns
\* the response into its result and ForceRefresh returns it to its caller.
RefreshReturn(d) ==
    /\ Running
    /\ refreshing[d] > 0
    /\ \E status \in Responses :
         /\ HTTPLog' = [HTTPLog EXCEPT ![d] = Append(@, LogEntry("POST", "/refresh/{id}", status))]
         /\ refreshRets' = [refreshRets EXCEPT ![d] = Append(@, RefreshErr(status))]
    /\ refreshing' = [refreshing EXCEPT ![d] = @ - 1]
    /\ UNCHANGED <<State, ErrorMsg, stopCh, doneCh, client, broker, pc, step, stateTrace,
                   ops, emitted, rets>>
    /\ UNCHANGED <<msgVars, snaps, StopCh, EventCh, statVars, rateVars, evPc, thVars, proc,
                   atStop, injected, refreshAt, asg, httpCall>>

ForceRefresh(d) ==
    \/ RefreshCall(d)
    \/ RefreshReturn(d)

\* ------------------------------------------------------- one device's run
\* The devices whose goroutine is scheduled in the single-device runs.
Focus == {1}

NextDevice ==
    \/ \E d \in Focus : Run(d)
    \/ \E d \in Focus : ConnectionLost(d)
    \/ \E t \in Threads : Shutdown(t)
    \/ WatcherSignal
    \/ WatcherDuration
    \/ WatcherStopped
    \/ WatcherQuit
    \/ UserQuit
    \/ ProgramQuit
    \/ ProcessEvent
    \/ ProcessStop

\* The runs of the program in which the goroutine of one device is scheduled,
\* with the shutdown protocol and the event-consuming loop around it; the other
\* devices have not run yet and the user forces no refresh; the connection to
\* the broker may go down at any moment.
SpecDevice == Init /\ [][NextDevice]_vars

NextRefresh ==
    \/ \E d \in Focus : Run(d)
    \/ \E d \in Focus : ForceRefresh(d)
    \/ \E t \in {"main"} : Shutdown(t)
    \/ UserQuit
    \/ ProcessEvent
    \/ ProcessStop

\* The runs of one device in a TUI session: the user forces refreshes of the
\* device and ends the session by quitting; no signal arrives and no duration
\* is set.
SpecRefresh == Init /\ [][NextRefresh]_vars

\* ------------------------------------------------------- the fleet's start
\* The steps of d.Run up to the wait for the cancellation.
Onboard(d) ==
    \/ RunLoop(d)
    \/ StepReturnHTTP(d)
    \/ ConnectReturn(d)
    \/ SubscribeReturn(d)
    \/ EmitError(d)
    \/ SetActive(d)
    \/ EmitActive(d)

NextFleet ==
    \/ \E d \in Dev : Onboard(d)
    \/ ProcessEvent

\* The runs of the program in which every device goes through its steps, each
\* step ending in any of its outcomes, with the event-consuming loop running
\* and no termination requested.
SpecFleet == Init /\ [][NextFleet]_vars

\* SpecFleet under a fair scheduler: a goroutine that can run does run (every
\* request and every broker operation ends, by answer, error or timeout), and
\* the select of the loop takes a ready receive from r.EventCh sooner or later.
SpecFleetFair ==
    /\ SpecFleet
    /\ \A d \in Dev : WF_vars(Onboard(d))
    /\ WF_vars(ProcessEvent)

\* ------------------------------------------------------- a whole session
NextSession ==
    \/ \E d \in Dev : Run(d)
    \/ \E t \in {"main"} : Shutdown(t)
    \/ UserQuit
    \/ ProcessEvent
    \/ ProcessStop

\* The runs of the program from the start of the fleet to its shutdown by the
\* user quitting the TUI: every device runs, the loop consumes, runLoadTest is
\* the one caller of r.Shutdown (no signal arrives and no duration is set).
SpecSession == Init /\ [][NextSession]_vars

\* --------------------------------------------- the aggregator by itself
\* The event types the switch of processEvents tells apart.
EventTypes == {"EventActive", "EventError", "EventDone"}

\* A producer other than a device sends on the exported r.EventCh: any event,
\* in any order, whatever the devices have emitted.
Inject ==
    /\ Running
    /\ injected < MaxInjected
    /\ CanSend
    /\ \E d \in Dev, type \in EventTypes : EventCh' = Append(EventCh, Event(d, type))
    /\ injected' = injected + 1
    /\ UNCHANGED <<devVars, msgVars, snaps, StopCh, statVars, rateVars, evPc, thVars, proc,
                   atStop, refVars, asg, httpCall>>

NextEvents ==
    \/ Inject
    \/ ProcessEvent

\* The event-consuming loop under arbitrary producers, no device scheduled yet.
SpecEvents == Init /\ [][NextEvents]_vars

\* ------------------------------------------------- the sampling of the rate
RECURSIVE SumTo(_, _)
\* f[1] + ... + f[n]
SumTo(f, n) == IF n = 0 THEN 0 ELSE f[n] + SumTo(f, n - 1)

\* for _, d := range r.Devices { total += int64(d.GetMQTTCount()) }
TotalCount == SumTo(MQTTCount, NumDevices)

\* A variant of WindowSlot that never reaches the last slot.
WindowSlotShort(idx) == idx % (WindowLen - 1)

\* The slot of mqttWindow the ticker branch writes: r.Stats.windowIdx%5.
WindowSlot(idx) == idx % WindowLen

RECURSIVE WindowSumTo(_)
\* mqttWindow[0] + ... + mqttWindow[i]
WindowSumTo(i) == IF i < 0 THEN 0 ELSE mqttWindow[i] + WindowSumTo(i - 1)

\* for _, v := range s.mqttWindow { sum += v }
WindowSum == WindowSumTo(WindowLen - 1)

\* Stats.MsgsPerSec: float64(sum) / 5.0, kept as the fraction it is.
MsgsPerSec == [num |-> WindowSum, den |-> WindowLen]

\* The device has issued its subscription on a connected client, so the broker
\* client may call the message handler.
Subscribed(d) ==
    /\ client[d]
    /\ broker[d] = "connected"
    /\ \/ step[d] = 8 /\ pc[d] = "call"
       \/ step[d] = 9

\* A variant of AddMQTTMsg that counts the message in one section under d.mu
\* and leaves the record to a later one.
AddMQTTMsgCountFirst(d) ==
    /\ Running
    /\ Subscribed(d)
    /\ TotalCount < MaxMsgs
    /\ MQTTCount' = [MQTTCount EXCEPT ![d] = @ + 1]
    /\ UNCHANGED <<devVars, MQTTMsgs, StopCh, EventCh, statVars, rateVars, evPc, thVars,
                   proc, atStop, injected, refVars, asg, httpCall, snaps>>

\* A variant of AddMQTTMsg that keeps the two most recent messages only.
AddMQTTMsgRecent(d) ==
    /\ Running
    /\ Subscribed(d)
    /\ TotalCount < MaxMsgs
    /\ MQTTMsgs' = [MQTTMsgs EXCEPT ![d] =
           Append(IF Len(@) >= 2 THEN Tail(@) ELSE @,
                  [topic |-> "commands", seq |-> MQTTCount[d] + 1])]
    /\ MQTTCount' = [MQTTCount EXCEPT ![d] = @ + 1]
    /\ UNCHANGED <<devVars, StopCh, EventCh, statVars, rateVars, evPc, thVars, proc,
                   atStop, injected, refVars, asg, httpCall, snaps>>

\* The subscription handler: d.addMQTTMsg appends the message and counts it in
\* one section under d.mu.
AddMQTTMsg(d) ==
    /\ Running
    /\ Subscribed(d)
    /\ TotalCount < MaxMsgs
    /\ MQTTMsgs' = [MQTTMsgs EXCEPT ![d] = Append(@, [topic |-> "commands", seq |-> Len(@) + 1])]
    /\ MQTTCount' = [MQTTCount EXCEPT ![d] = @ + 1]
    /\ UNCHANGED <<devVars, StopCh, EventCh, statVars, rateVars, evPc, thVars, proc,
                   atStop, injected, refVars, asg, httpCall, snaps>>

\* The 1-second period of mqttTicker elapses.  The runtime sends the firing on
\* the ticker's channel, which holds one value, without blocking: a firing that
\* finds the previous one still in the channel is discarded.  The loop is away
\* from its select while it runs a branch, program.Send included, which blocks
\* until the TUI takes the message.
TickerFire ==
    /\ Running
    /\ evPc = "select"
    /\ fired < MaxTicks
    /\ fired' = fired + 1
    /\ tickCh' = 1
    /\ UNCHANGED <<MQTTTotal, mqttWindow, windowIdx, lastTotal, deltas, ticks>>
    /\ UNCHANGED <<devVars, msgVars, snaps, StopCh, EventCh, statVars, evPc, thVars, proc,
                   atStop, injected, refVars, asg, httpCall>>

\* A variant of ProcessTick that does not carry the total over to the next tick.
ProcessTickNoCarry ==
    /\ Running
    /\ evPc = "select"
    /\ tickCh = 1
    /\ tickCh' = 0
    /\ MQTTTotal' = TotalCount
    /\ mqttWindow' = [mqttWindow EXCEPT ![WindowSlot(windowIdx)] = TotalCount - lastTotal]
    /\ windowIdx' = windowIdx + 1
    /\ deltas' = Append(deltas, TotalCount - lastTotal)
    /\ ticks' = ticks + 1
    /\ UNCHANGED <<devVars, msgVars, snaps, StopCh, EventCh, statVars, evPc, thVars, proc,
                   atStop, injected, refVars, asg, httpCall, fired, lastTotal>>

\* case <-mqttTicker.C: of processEvents.
ProcessTick ==
    /\ Running
    /\ evPc = "select"
    /\ tickCh = 1
    /\ tickCh' = 0
    /\ MQTTTotal' = TotalCount
    /\ lastTotal' = TotalCount
    /\ mqttWindow' = [mqttWindow EXCEPT ![WindowSlot(windowIdx)] = TotalCount - lastTotal]
    /\ windowIdx' = windowIdx + 1
    /\ deltas' = Append(deltas, TotalCount - lastTotal)
    /\ ticks' = ticks + 1
    /\ UNCHANGED <<devVars, msgVars, snaps, StopCh, EventCh, statVars, evPc, thVars, proc,
                   atStop, injected, refVars, asg, httpCall, fired>>

\* Every device has completed its eight steps with success, is Active and
\* blocked on <-d.stopCh; its became-active event is in the channel.
Onboarded ==
    /\ State = [d \in Dev |-> "Active"]
    /\ ErrorMsg = [d \in Dev |-> <<>>]
    /\ HTTPLog = [d \in Dev |-> [k \in 1..6 |-> LogEntry(StepMethod(k), StepPath(k), 200)]]
    /\ MQTTMsgs = [d \in Dev |-> <<>>]
    /\ MQTTCount = [d \in Dev |-> 0]
    /\ stopCh = [d \in Dev |-> "open"]
    /\ doneCh = [d \in Dev |-> "open"]
    /\ client = [d \in Dev |-> TRUE]
    /\ broker = [d \in Dev |-> "connected"]
    /\ pc = [d \in Dev |-> "wait"]
    /\ step = [d \in Dev |-> NumSteps + 1]
    /\ stateTrace = [d \in Dev |-> <<"Init", "Registering", "Authenticating", "Linking",
                                     "Configuring", "Active">>]
    /\ ops = [d \in Dev |-> [k \in 1..NumSteps |-> StepName(k)]]
    /\ emitted = [d \in Dev |-> <<"EventActive">>]
    /\ rets = [d \in Dev |-> [k \in 1..NumSteps |-> ""]]
    /\ StopCh = "open"
    /\ EventCh = [d \in Dev |-> Event(d, "EventActive")]
    /\ ActiveDevices = 0
    /\ ErrorCount = 0
    /\ clamped = FALSE
    /\ MQTTTotal = 0
    /\ mqttWindow = [i \in 0..(WindowLen - 1) |-> 0]
    /\ windowIdx = 0
    /\ lastTotal = 0
    /\ evPc = "select"
    /\ thPc = [t \in {"watcher", "main"} |-> IF t = "watcher" THEN "select" ELSE "tui"]
    /\ thDev = [t \in {"watcher", "main"} |-> 1]
    /\ quitReq = FALSE
    /\ proc = "running"
    /\ atStop = [closed |-> FALSE, allActive |-> FALSE]
    /\ deltas = <<>>
    /\ injected = 0
    /\ ticks = 0
    /\ tickCh = 0
    /\ fired = 0
    /\ snaps = <<>>
    /\ refreshing = [d \in Dev |-> 0]
    /\ refreshAt = [d \in Dev |-> <<>>]
    /\ refreshRets = [d \in Dev |-> <<>>]
    /\ asg = [pc |-> "idle"]
    /\ httpCall = [pc |-> "idle"]

NextRate ==
    \/ \E d \in Dev : AddMQTTMsg(d)
    \/ TickerFire
    \/ ProcessTick
    \/ ProcessEvent

\* The event-consuming loop sampling the message counters of an onboarded fleet
\* while no termination is requested.
SpecRate == Onboarded /\ [][NextRate]_vars


\* ------------------------------------------------ the readers of the logs
\* cp := make([]T, len(log)); copy(cp, log): a new slice of the same length
\* holding the elements of log.
Copy(log) == [i \in 1..Len(log) |-> log[i]]

\* d.GetHTTPLog(), called by the detail view: the copy is made in one section
\* under d.mu.RLock and handed to the reader.
GetHTTPLog(d) ==
    /\ Running
    /\ Len(snaps) < MaxSnaps
    /\ snaps' = Append(snaps, [dev |-> d, kind |-> "http", copy |-> Copy(HTTPLog[d])])
    /\ UNCHANGED <<devVars, msgVars, StopCh, EventCh, statVars, rateVars, evPc, thVars,
                   proc, atStop, injected, refVars, asg, httpCall>>

\* d.GetMQTTMsgs(), called by the detail view.
GetMQTTMsgs(d) ==
    /\ Running
    /\ Len(snaps) < MaxSnaps
    /\ snaps' = Append(snaps, [dev |-> d, kind |-> "mqtt", copy |-> Copy(MQTTMsgs[d])])
    /\ UNCHANGED <<devVars, msgVars, StopCh, EventCh, statVars, rateVars, evPc, thVars,
                   proc, atStop, injected, refVars, asg, httpCall>>

NextLogs ==
    \/ \E d \in Dev : AddMQTTMsg(d)
    \/ \E d \in Focus : ForceRefresh(d)
    \/ \E d \in Focus : GetHTTPLog(d)
    \/ \E d \in Focus : GetMQTTMsgs(d)

\* The detail view reading the logs of the device it shows, in an onboarded
\* fleet, while messages arrive and the user forces refreshes of the device.
SpecLogs == Onboarded /\ [][NextLogs]_vars

\* -------------------------------------------------- providers.AssignProviders
\* The category keys and the percentages the distributions are drawn from: two
\* keys of stopsByProvider and one that is not in it.
Keys == {"cta", "mta", "bart"}
Pcts == {0, 10, 25, 30, 33, 34, 40, 50, 60, 67, 75, 90, 100}

RECURSIVE SumPct(_, _)
\* The sum of dist over the keys in S.
SumPct(dist, S) ==
    IF S = {} THEN 0
    ELSE LET p == CHOOSE x \in S : TRUE IN dist[p] + SumPct(dist, S \ {p})

\* The distributions the caller may pass: percentages summing to 100 over at
\* least one category (parseProviderDist rejects any other sum).
Dists ==
    {dist \in UNION {[K -> Pcts] : K \in (SUBSET Keys) \ {{}}} :
        SumPct(dist, DOMAIN dist) = 100}

\* A variant of FloorCount that rounds up.
FloorCountUp(pct, n) == (pct * n + 99) \div 100

\* count := (pct * n) / 100
FloorCount(pct, n) == (pct * n) \div 100

\* count copies of provider.
Repeat(provider, count) == [i \in 1..count |-> provider]

\* The orders rand.Shuffle may leave a slice of length n in.
Shuffles(n) == {f \in [1..n -> 1..n] : \A i, j \in 1..n : f[i] = f[j] => i = j}

\* A variant of Trim that keeps the whole slice.
TrimNone(weighted, n) == weighted

\* weighted[:n]
Trim(weighted, n) == SubSeq(weighted, 1, n)

\* The occurrences of key in seq.
Count(seq, key) == Cardinality({i \in 1..Len(seq) : seq[i] = key})

assignRest == <<devVars, msgVars, snaps, StopCh, EventCh, statVars, rateVars, evPc, thVars,
                proc, atStop, injected, refVars, httpCall>>

\* One iteration of "for provider, pct := range dist": a map is ranged over in
\* an order the runtime picks.
AssignFloor ==
    /\ asg.pc = "floor"
    /\ \E p \in asg.todo :
         asg' = [asg EXCEPT
                   !.weighted = @ \o Repeat(p, FloorCount(asg.dist[p], asg.n)),
                   !.todo = IF asg.todo = {p} THEN DOMAIN asg.dist ELSE asg.todo \ {p},
                   !.pc = IF asg.todo = {p} THEN "fill" ELSE "floor"]
    /\ UNCHANGED assignRest

\* A variant of AssignFill whose inner loop starts the range over after every
\* append.
AssignFillRestart ==
    /\ asg.pc = "fill"
    /\ IF Len(asg.weighted) >= asg.n
       THEN asg' = [asg EXCEPT !.pc = "shuffle"]
       ELSE \E p \in DOMAIN asg.dist :
              asg' = [asg EXCEPT !.weighted = Append(@, p), !.todo = DOMAIN asg.dist]
    /\ UNCHANGED assignRest

\* "for len(weighted) < n": the test of the outer loop and, when it holds, one
\* iteration of the inner "for provider := range dist" with its break.
AssignFill ==
    /\ asg.pc = "fill"
    /\ IF Len(asg.weighted) >= asg.n
       THEN asg' = [asg EXCEPT !.pc = "shuffle"]
       ELSE \E p \in asg.todo :
              asg' = [asg EXCEPT
                        !.weighted = Append(@, p),
                        !.todo = IF asg.todo = {p} \/ Len(asg.weighted) + 1 >= asg.n
                                 THEN DOMAIN asg.dist
                                 ELSE asg.todo \ {p}]
    /\ UNCHANGED assignRest

\* rand.Shuffle(len(weighted), ...)
AssignShuffle ==
    /\ asg.pc = "shuffle"
    /\ \E f \in Shuffles(Len(asg.weighted)) :
         asg' = [asg EXCEPT
                   !.weighted = [i \in 1..Len(asg.weighted) |-> asg.weighted[f[i]]],
                   !.pc = "trim"]
    /\ UNCHANGED assignRest

\* result = append(result, weighted[:n]...); return result
AssignReturn ==
    /\ asg.pc = "trim"
    /\ asg' = [asg EXCEPT !.result = Trim(asg.weighted, asg.n), !.pc = "done"]
    /\ UNCHANGED assignRest

\* A call AssignProviders(n, dist) at its entry.
AssignCall(n, dist) ==
    [pc |-> "floor", n |-> n, dist |-> dist, todo |-> DOMAIN dist,
     weighted |-> <<>>, result |-> <<>>, made |-> <<>>]

InitAssign ==
    /\ InitRunner
    /\ asg \in {AssignCall(n, dist) : n \in 0..MaxAssign, dist \in Dists}
    /\ httpCall = [pc |-> "idle"]

NextAssign ==
    \/ AssignFloor
    \/ AssignFill
    \/ AssignShuffle
    \/ AssignReturn

\* One call of AssignProviders for every device count and distribution.
SpecAssign == InitAssign /\ [][NextAssign]_vars

\* Percentages for the mappings a caller other than parseProviderDist may pass:
\* sums below, at and above 100 occur.
AnyPcts == {0, 20, 50}

\* Every mapping over at least one category with percentages that are not
\* negative, whatever their sum.
DistsAny == UNION {[K -> AnyPcts] : K \in (SUBSET Keys) \ {{}}}

InitAssignAny ==
    /\ InitRunner
    /\ asg \in {AssignCall(n, dist) : n \in 0..MaxAssign, dist \in DistsAny}
    /\ httpCall = [pc |-> "idle"]

\* One call of AssignProviders for every device count and every such mapping.
SpecAssignAny == InitAssignAny /\ [][NextAssign]_vars

\* ------------------------------------------------------------- runner.New
\* len(stopsByProvider[key]) for the keys of the catalog.
StopCount == [mta |-> 8, cta |-> 8, mbta |-> 6, septa |-> 4]

\* The ok result of providers.PickStop(provider): which of the category's
\* stops it picks is left open.
PickStopOK(provider) == provider \in DOMAIN StopCount /\ StopCount[provider] > 0

\* One iteration of "for i := 0; i < cfg.Devices; i++" of runner.New after
\* AssignProviders has returned, or the end of the loop: PickStop for slot i
\* fails and New returns (nil, error), or device.New creates the device
\* (asg.made holds the category of every device created); after the last slot
\* New returns the runner.
NewDevice ==
    /\ asg.pc = "done"
    /\ IF Len(asg.made) = asg.n
       THEN asg' = [asg EXCEPT !.pc = "built"]
       ELSE IF PickStopOK(asg.result[Len(asg.made) + 1])
       THEN asg' = [asg EXCEPT !.made = Append(@, asg.result[Len(asg.made) + 1])]
       ELSE asg' = [asg EXCEPT !.pc = "failed"]
    /\ UNCHANGED assignRest

NextNew ==
    \/ AssignFloor
    \/ AssignFill
    \/ AssignShuffle
    \/ AssignReturn
    \/ NewDevice

\* One call of runner.New for every device count and distribution.
SpecNew == InitAssign /\ [][NextNew]_vars


\* ------------------------------------------ a step function of httpClient
\* The status codes a backend may answer with, and 0 for no response at all.
Statuses == {0, 200, 201, 202, 204, 301, 400, 401, 404, 409, 500, 503}

\* Step function k of httpClient with its request in flight and the answer
\* the backend is about to give.
HTTPCall(k, status) == [pc |-> "sent", k |-> k, status |-> status]

\* The request ends: doWithTimeout appends its record to the request log and
\* the step function turns the response into its result.
HTTPCallReturn ==
    /\ httpCall.pc = "sent"
    /\ httpCall' = [pc |-> "done", k |-> httpCall.k, status |-> httpCall.status,
                    entry |-> LogEntry(StepMethod(httpCall.k), StepPath(httpCall.k),
                                       httpCall.status),
                    err |-> HTTPErr(httpCall.k, httpCall.status)]
    /\ UNCHANGED <<devVars, msgVars, snaps, StopCh, EventCh, statVars, rateVars, evPc, thVars,
                   proc, atStop, injected, refVars, asg>>

InitHTTP ==
    /\ InitRunner
    /\ asg = [pc |-> "idle"]
    /\ httpCall \in {HTTPCall(k, status) : k \in {j \in 1..NumSteps : IsHTTPStep(j)},
                                           status \in Statuses}

NextHTTP == HTTPCallReturn

\* One call of each of the six step functions of httpClient for every answer.
SpecHTTP == InitHTTP /\ [][NextHTTP]_vars


\* ===================================================================== claims
\* Some thread has entered r.Shutdown.
ShutdownCalled == \E t \in Threads : thPc[t] \notin {"select", "tui"}

\* d.Run has returned.
Returned(d) == pc[d] = "returned"

\* s occurs in the sequence tr.
Occurs(tr, s) == \E i \in 1..Len(tr) : tr[i] = s

\* C1: r.Shutdown, called from the termination watcher and from runLoadTest in
\* any interleaving, never faults with a double close: no call closes r.StopCh
\* or a device's stopCh that is already closed.
C1_ShutdownNeverFaults == proc # "panicked"

\* A state in which both threads have passed the select of r.Shutdown while
\* r.StopCh was open, so both go on to close it.
C1_BothPastSelect == thPc["watcher"] = "rs_close" /\ thPc["main"] = "rs_close"

\* C2: once r.Shutdown has been called, the devices keep moving until every
\* Run has returned: in every state after the call in which some Run has not
\* returned, a device or a thread inside Shutdown can take a step.
C2_ShutdownDrains ==
    (ShutdownCalled /\ ~(\A d \in Dev : Returned(d)))
        => ENABLED ((\E d \in Dev : Run(d)) \/ (\E t \in Threads : Shutdown(t)))

\* C2 with the faulted process set aside: what holds of the drain as long as
\* no close has panicked.
C2_DrainsUnlessFaulted == proc = "panicked" \/ C2_ShutdownDrains

\* The cancellation of device d is set and d.Run has not executed its first step.
PreCancelled(d) == Closed(stopCh[d]) /\ pc[d] = "loop" /\ step[d] = 1

\* C3: a device cancelled before the first step of Run goes from Init to Done
\* in its next step and Run returns, with no backend or broker operation
\* invoked, the request log empty and no other state entered; until then
\* nothing of the device changes.
C3_PreCancelledGoesToDone ==
    [][\A d \in Dev :
         PreCancelled(d) =>
            \/ /\ pc'[d] = pc[d]
               /\ State'[d] = "Init"
               /\ HTTPLog'[d] = <<>>
               /\ ops'[d] = <<>>
            \/ /\ pc'[d] = "returned"
               /\ State'[d] = "Done"
               /\ stateTrace'[d] = <<"Init", "Done">>
               /\ HTTPLog'[d] = <<>>
               /\ ops'[d] = <<>>
               /\ emitted'[d] = <<>>
               /\ doneCh'[d] = "closed"]_vars

\* A device that was cancelled before its first step and has returned.
C3_CancelledAtStart ==
    \E d \in Dev : /\ Returned(d)
                   /\ step[d] = 1
                   /\ rets[d] = <<>>
                   /\ State[d] = "Done"

\* All eight step functions of d.Run have returned nil.
AllStepsOK(d) == Len(rets[d]) = NumSteps /\ \A i \in 1..NumSteps : rets[d][i] = ""

\* C4: a device whose eight steps all succeeded becomes Active with the next
\* step of its Run, which nothing but the end of the process can keep from
\* happening, and it is Done only after it has been Active.
C4_ActiveBeforeDone ==
    \A d \in Dev :
        AllStepsOK(d) =>
            /\ (Running /\ pc[d] = "activate") => ENABLED SetActive(d)
            /\ pc[d] # "activate" => Occurs(stateTrace[d], "Active")
            /\ \A j \in 1..Len(stateTrace[d]) :
                 stateTrace[d][j] = "Done" =>
                    \E i \in 1..(j - 1) : stateTrace[d][i] = "Active"

\* A device that succeeded in all eight steps, was Active and is Done.
C4_OnboardedThenDone ==
    \E d \in Dev : /\ AllStepsOK(d)
                   /\ State[d] = "Done"
                   /\ Returned(d)

\* C5: when step i of a device has failed, it is the last step function that
\* ran (no step j > i, no retry, no logout), the device is in Error with the
\* error recorded, and Active and Done have never been entered.
C5_FailedStepStops ==
    \A d \in Dev : \A i \in 1..Len(rets[d]) :
        rets[d][i] # "" =>
            /\ i = Len(rets[d])
            /\ step[d] = i
            /\ Len(ops[d]) <= i
            /\ ~Occurs(ops[d], "logout")
            /\ State[d] = "Error"
            /\ ErrorMsg[d] = <<StepName(i), rets[d][i]>>
            /\ ~Occurs(stateTrace[d], "Active")
            /\ ~Occurs(stateTrace[d], "Done")
            /\ pc[d] \in {"emitError", "returned"}

\* A device whose login failed, has emitted its error event and has returned
\* while its cancellation is set.
C5_FailedAtLogin ==
    \E d \in Dev : /\ Len(rets[d]) = 3
                   /\ rets[d][3] # ""
                   /\ Returned(d)
                   /\ Closed(stopCh[d])

\* The place of a state in the order of the lifecycle.
Rank(s) ==
    CASE s = "Init" -> 0
      [] s = "Registering" -> 1
      [] s = "Authenticating" -> 2
      [] s = "Linking" -> 3
      [] s = "Configuring" -> 4
      [] s = "Active" -> 5
      [] s = "Done" -> 6
      [] s = "Error" -> 7

\* The states that end a lifecycle.
Terminal(s) == s \in {"Done", "Error"}

\* C6: the states a device has held start at Init and move strictly forward
\* in the order Init, Registering, Authenticating, Linking, Configuring,
\* Active, Done, or into Error from a state that is not terminal; nothing
\* follows Done or Error, and d.State is the last of them.
C6_StrictlyForward ==
    \A d \in Dev :
        /\ stateTrace[d][1] = "Init"
        /\ State[d] = stateTrace[d][Len(stateTrace[d])]
        /\ \A i \in 1..(Len(stateTrace[d]) - 1) :
             /\ ~Terminal(stateTrace[d][i])
             /\ \/ stateTrace[d][i + 1] = "Error"
                \/ /\ stateTrace[d][i + 1] # "Error"
                   /\ Rank(stateTrace[d][i + 1]) > Rank(stateTrace[d][i])

\* A device in Error on which a refresh was forced while it was in Error and
\* has returned, and whose cancellation was set afterwards.
C6_RefreshedWhenTerminal ==
    \E d \in Dev : /\ State[d] = "Error"
                   /\ Len(refreshRets[d]) > 0
                   /\ refreshAt[d][1] = "Error"
                   /\ Closed(stopCh[d])

\* C7: Stats.ActiveDevices is never negative, whatever events the loop consumes
\* and in whatever order.
C7_ActiveNeverNegative == ActiveDevices >= 0

\* The loop has consumed a became-done event while the count was 0.
C7_DoneWithoutActive == clamped /\ ActiveDevices = 0 /\ EventCh = <<>>

\* The first of the deltas that still count after k ticks.
OldestCounted(k) == IF k > 5 THEN k - 4 ELSE 1

\* deltas[from] + ... + deltas[to]
RECURSIVE DeltaSum(_, _)
DeltaSum(from, to) == IF to < from THEN 0 ELSE deltas[to] + DeltaSum(from, to - 1)

\* C8: after k ticks with deltas d1..dk, 5 * MsgsPerSec is d1+...+dk when
\* k <= 5 and d(k-4)+...+dk when k > 5, the j-th delta being held in slot
\* (j-1) mod 5 of the buffer and the slots not yet written holding 0.
C8_RollingRate ==
    LET k == Len(deltas) IN
    /\ MsgsPerSec.den = 5
    /\ MsgsPerSec.num = DeltaSum(OldestCounted(k), k)
    /\ \A j \in OldestCounted(k)..k : mqttWindow[(j - 1) % 5] = deltas[j]
    /\ \A i \in k..4 : mqttWindow[i] = 0

\* The buffer has wrapped around and dropped a delta that was not 0.
C8_WrappedAround ==
    /\ Len(deltas) > 5
    /\ deltas[1] > 0
    /\ deltas[Len(deltas)] > 0

\* The sum over the keys in S of floor(pct * n / 100).
RECURSIVE FloorSum(_, _, _)
FloorSum(dist, n, S) ==
    IF S = {} THEN 0
    ELSE LET p == CHOOSE x \in S : TRUE
         IN ((dist[p] * n) \div 100) + FloorSum(dist, n, S \ {p})

\* The sum over the keys in S of the occurrences of the key in seq.
RECURSIVE CountSum(_, _)
CountSum(seq, S) ==
    IF S = {} THEN 0
    ELSE LET p == CHOOSE x \in S : TRUE IN Count(seq, p) + CountSum(seq, S \ {p})

\* C9: AssignProviders(n, dist) returns exactly n keys, each a key of dist, and
\* every category has its floor(pct * n / 100) keys plus a share of the
\* remainder that is not negative, the shares adding up to n minus the sum of
\* the floors.
C9_AssignCounts ==
    asg.pc = "done" =>
        /\ Len(asg.result) = asg.n
        /\ \A i \in 1..Len(asg.result) : asg.result[i] \in DOMAIN asg.dist
        /\ \A p \in DOMAIN asg.dist :
             Count(asg.result, p) >= (asg.dist[p] * asg.n) \div 100
        /\ CountSum(asg.result, DOMAIN asg.dist)
             - FloorSum(asg.dist, asg.n, DOMAIN asg.dist)
           = asg.n - FloorSum(asg.dist, asg.n, DOMAIN asg.dist)
        /\ FloorSum(asg.dist, asg.n, DOMAIN asg.dist) <= asg.n

\* A call over three categories that has returned and had a remainder to share.
C9_RemainderShared ==
    /\ asg.pc = "done"
    /\ Cardinality(DOMAIN asg.dist) = 3
    /\ asg.n >= 3
    /\ FloorSum(asg.dist, asg.n, DOMAIN asg.dist) < asg.n

\* C10: when r.StopCh was closed with every device Active, then once every
\* Run has returned and the event-consuming loop has ended, every device is
\* Done and Stats.ActiveDevices is back at 0.
C10_ActiveBackToZero ==
    (atStop.allActive /\ (\A d \in Dev : Returned(d)) /\ evPc = "returned")
        => /\ \A d \in Dev : State[d] = "Done"
           /\ ActiveDevices = 0

\* Every device was counted Active when the stop was signalled, every device
\* is Done and has emitted its became-done event, and the loop has ended.
C10_AllDoneLoopEnded ==
    /\ atStop.allActive
    /\ \A d \in Dev : Returned(d) /\ State[d] = "Done" /\ Occurs(emitted[d], "EventDone")
    /\ evPc = "returned"
    /\ ActiveDevices = NumDevices

\* The events of a type waiting in r.EventCh.
BufferedOf(type) == Cardinality({i \in 1..Len(EventCh) : EventCh[i].type = type})

\* The devices that have emitted an event of a type.
EmittersOf(type) == {d \in Dev : Occurs(emitted[d], type)}

\* What holds of the error count at every moment: each became-error event
\* emitted is either still buffered or counted once, and the active count is
\* raised only by became-active events.
C11_ErrorNeverCountedTwice ==
    /\ ErrorCount + BufferedOf("EventError") = Cardinality(EmittersOf("EventError"))
    /\ ActiveDevices <= Cardinality(EmittersOf("EventActive"))

\* C11: every device whose step failed is counted in Stats.ErrorCount exactly
\* once and leaves Stats.ActiveDevices alone: never twice, and, once the
\* event-consuming loop has ended, each of them has been counted.
C11_ErrorCountedOnce ==
    /\ C11_ErrorNeverCountedTwice
    /\ evPc = "returned" => ErrorCount = Cardinality(EmittersOf("EventError"))

\* A device has failed, sent its became-error event and returned, and the loop
\* has ended with the event still in the channel.
C11_ErrorLeftInChannel ==
    /\ evPc = "returned"
    /\ \E d \in Dev : Returned(d) /\ State[d] = "Error"
    /\ BufferedOf("EventError") = 1
    /\ ErrorCount = 0

\* The positions of d.Run at a send on the event channel.
AtSend(d) == pc[d] \in {"emitError", "emitActive", "emitDone"}

\* C12: a send of a device on the event channel never blocks, whatever the
\* event-consuming loop does: every device emits at most two events, the
\* channel never holds more than its capacity 4 * N, and whenever a device is
\* at a send the channel has room.
C12_SendNeverBlocks ==
    /\ Len(EventCh) <= 4 * NumDevices
    /\ \A d \in Dev :
         /\ Len(emitted[d]) <= 2
         /\ AtSend(d) => CanSend

\* The loop has ended without consuming anything and every device has sent
\* both of its events.
C12_AllEventsBuffered ==
    /\ evPc = "returned"
    /\ ActiveDevices = 0
    /\ Len(EventCh) = 2 * NumDevices
    /\ \A d \in Dev : Returned(d) /\ Len(emitted[d]) = 2

\* C13: ForceRefresh issues its refresh request only on a device that is
\* Active: every refresh request was issued with d.State = Active.
C13_RefreshOnlyWhenActive ==
    \A d \in Dev : \A i \in 1..Len(refreshAt[d]) : refreshAt[d][i] = "Active"

\* A refresh forced on a device that had not left Init has reached the backend
\* and is in the request log.
C13_RefreshedInInit ==
    \E d \in Dev : /\ Len(refreshAt[d]) > 0
                   /\ refreshAt[d][1] = "Init"
                   /\ Len(refreshRets[d]) > 0
                   /\ \E i \in 1..Len(HTTPLog[d]) : HTTPLog[d][i].path = "/refresh/{id}"

\* A step of ForceRefresh on device d: a request issued or a request ended.
RefreshStep(d) == refreshing'[d] # refreshing[d]

\* C14: no step of ForceRefresh, whenever it is taken and whether the request
\* succeeds or fails, changes the device's state or error text or sends an
\* event; when the request ends, its result goes to the caller, an error
\* exactly when the backend did not answer 200 or 201.
C14_RefreshLeavesLifecycle ==
    [][\A d \in Dev :
         RefreshStep(d) =>
            /\ State' = State
            /\ ErrorMsg' = ErrorMsg
            /\ stateTrace' = stateTrace
            /\ emitted' = emitted
            /\ EventCh' = EventCh
            /\ refreshing'[d] < refreshing[d] =>
                 /\ Len(refreshRets'[d]) = Len(refreshRets[d]) + 1
                 /\ Len(HTTPLog'[d]) = Len(HTTPLog[d]) + 1
                 /\ (refreshRets'[d][Len(refreshRets'[d])] = "")
                      <=> (HTTPLog'[d][Len(HTTPLog'[d])].status \in {200, 201})]_vars

\* A refresh forced on an Active device has failed and the device is still
\* Active with no error text.
C14_FailedRefreshWhileActive ==
    \E d \in Dev : /\ Len(refreshRets[d]) > 0
                   /\ refreshRets[d][1] # ""
                   /\ refreshAt[d][1] = "Active"
                   /\ State[d] = "Active"
                   /\ ErrorMsg[d] = <<>>

\* The records of lifecycle steps in the request log of d: every record but
\* those of logout and of forced refreshes.
StepRecords(d) ==
    Cardinality({i \in 1..Len(HTTPLog[d]) :
                    HTTPLog[d][i].path \notin {"/auth/logout", "/refresh/{id}"}})

\* The smaller of two numbers.
Least(a, b) == IF a <= b THEN a ELSE b

\* What holds of the request log: each of the six backend steps that has
\* finished, with or without a response, has appended one record, and the
\* broker steps have appended none.
C15_BackendStepsLogged ==
    \A d \in Dev : StepRecords(d) = Least(Len(rets[d]), 6)

\* C15: every lifecycle step that has finished, the two broker steps among
\* them, has appended exactly one record to the request log: after step i the
\* log holds i step records.
C15_EveryStepLogged ==
    \A d \in Dev : StepRecords(d) = Len(rets[d])

\* A device has finished all eight steps and its request log holds six step
\* records.
C15_BrokerStepsUnlogged ==
    \E d \in Dev : /\ Len(rets[d]) = NumSteps
                   /\ State[d] = "Active"
                   /\ StepRecords(d) = 6

\* What holds of the record of a step: a step that succeeded has a record
\* marked OK, and a step answered outside 200..299, or not answered, has
\* failed and its record is marked failed.
C16_FailureStatusMarked ==
    httpCall.pc = "done" =>
        /\ httpCall.err = "" => httpCall.entry.ok
        /\ (httpCall.status < 200 \/ httpCall.status > 299) =>
             (httpCall.err # "" /\ ~httpCall.entry.ok)

\* C16: for every step and every status the backend returns, the record
\* appended for the step is marked OK exactly when the step took the response
\* for a success.
C16_OKIffStepSucceeded ==
    httpCall.pc = "done" => (httpCall.entry.ok <=> httpCall.err = "")

\* A step has failed on an answer and its record is marked OK.
C16_FailedButMarkedOK ==
    /\ httpCall.pc = "done"
    /\ httpCall.err = "returned status"
    /\ httpCall.entry.ok

\* C17: in every state a reader of the device can see, the message counter
\* equals the length of the message log: each inbound message has appended
\* one record and raised the counter by one in the same section.
C17_CountIsLogLength ==
    \A d \in Dev : MQTTCount[d] = Len(MQTTMsgs[d])

\* A device has received two messages and the sampling loop has read the
\* counters in between.
C17_ReadBetweenMessages ==
    \E d \in Dev : /\ Len(MQTTMsgs[d]) = 2
                   /\ MQTTTotal = 1
                   /\ Len(deltas) > 0

\* The types of the events of device d waiting in r.EventCh, in channel order.
RECURSIVE BufferedFrom(_, _)
BufferedFrom(d, ch) ==
    IF ch = <<>> THEN <<>>
    ELSE IF Head(ch).dev = d THEN <<Head(ch).type>> \o BufferedFrom(d, Tail(ch))
    ELSE BufferedFrom(d, Tail(ch))

\* The state an event reports.
StateOf(type) ==
    CASE type = "EventActive" -> "Active"
      [] type = "EventError" -> "Error"
      [] type = "EventDone" -> "Done"

\* s is what is left of t after some of its first elements are taken away.
IsSuffix(s, t) ==
    /\ Len(s) <= Len(t)
    /\ s = SubSeq(t, Len(t) - Len(s) + 1, Len(t))

\* C18: the events a device has emitted are none, [became-error],
\* [became-active] or [became-active, became-done]; those not yet consumed
\* wait in the channel in the order of emission; and the state an event
\* reports was entered before the event was sent.
C18_EventsInOrder ==
    \A d \in Dev :
        /\ emitted[d] \in {<<>>, <<"EventError">>, <<"EventActive">>,
                           <<"EventActive", "EventDone">>}
        /\ IsSuffix(BufferedFrom(d, EventCh), emitted[d])
        /\ \A i \in 1..Len(emitted[d]) : Occurs(stateTrace[d], StateOf(emitted[d][i]))
        /\ AtSend(d) => State[d] = StateOf(CASE pc[d] = "emitError" -> "EventError"
                                             [] pc[d] = "emitActive" -> "EventActive"
                                             [] pc[d] = "emitDone" -> "EventDone")

\* A device has emitted became-active and became-done and both wait in the
\* channel.
C18_ActiveAndDoneBuffered ==
    \E d \in Dev : /\ emitted[d] = <<"EventActive", "EventDone">>
                   /\ BufferedFrom(d, EventCh) = <<"EventActive", "EventDone">>

\* The categories of a distribution that PickStop has no stop for.
Unserved(dist) == {p \in DOMAIN dist : ~PickStopOK(p)}

\* What holds of runner.New: it fails exactly when a slot was assigned a
\* category without stops, and every device it created has a category with
\* stops.
C19_FailsOnAssignedUnserved ==
    /\ asg.pc = "failed" =>
         \E i \in 1..Len(asg.result) : asg.result[i] \in Unserved(asg.dist)
    /\ asg.pc = "built" =>
         /\ Len(asg.made) = asg.n
         /\ \A i \in 1..Len(asg.result) : asg.result[i] \notin Unserved(asg.dist)
    /\ asg.pc \in {"done", "built", "failed"} =>
         \A i \in 1..Len(asg.made) : asg.made[i] \notin Unserved(asg.dist)

\* C19: runner.New fails, returning no runner, whenever a category of the
\* configured distribution is unknown to the catalog or has no stops, and no
\* device is created with such a category.
C19_FailsOnUnservedCategory ==
    /\ (asg.pc = "built" => Unserved(asg.dist) = {})
    /\ asg.pc \in {"done", "built", "failed"} =>
         \A i \in 1..Len(asg.made) : asg.made[i] \notin Unserved(asg.dist)

\* runner.New has returned a runner with four devices for a distribution that
\* gives 10 percent to a category unknown to the catalog.
C19_BuiltDespiteUnserved ==
    /\ asg.pc = "built"
    /\ asg.n = 4
    /\ \E p \in Unserved(asg.dist) : asg.dist[p] = 10

\* What holds of the watcher: it calls program.Quit() only after its own call
\* of r.Shutdown has returned, with r.StopCh and every device's stopCh
\* closed, and then it has ended.
C20_QuitsAfterOwnShutdown ==
    quitReq =>
        /\ thPc["watcher"] = "end"
        /\ Closed(StopCh)
        /\ \A d \in Dev : Closed(stopCh[d])

\* C20: on whichever comes first of a signal, the duration elapsing and
\* Shutdown having been called elsewhere, the watcher triggers Shutdown and
\* calls program.Quit(), once, and ends: a watcher that has ended has called
\* program.Quit() with the stop signalled.
C20_WatcherNotifies ==
    /\ C20_QuitsAfterOwnShutdown
    /\ thPc["watcher"] = "end" => (quitReq /\ Closed(StopCh))

\* The watcher has ended on r.StopCh closed by runLoadTest and program.Quit()
\* was not called.
C20_EndedWithoutQuit ==
    /\ thPc["watcher"] = "end"
    /\ ~quitReq
    /\ thPc["main"] \notin {"tui", "rs_select", "rs_close"}
    /\ proc = "running"

\* d.cleanup has been entered: the device was Active and its cancellation came.
InCleanup(d) == Occurs(ops[d], "logout")

\* The positions of d.Run inside cleanup.
CleanupPending(d) == pc[d] \in {"logout", "disconnect", "close"}

\* The last record of the request log of d.
LastLog(d) == HTTPLog[d][Len(HTTPLog[d])]

\* C21: whatever the cleanup operations of a cancelled Active device end with
\* (logout unanswered or answered with a failure status, the broker not
\* connected), the device is never put into Error and its error text stays
\* empty, its Run can always take the next step, and when Run has returned the
\* device is Done and became-done was emitted.
C21_CleanupFailureIgnored ==
    \A d \in Dev :
        InCleanup(d) =>
            /\ State[d] \in {"Active", "Done"}
            /\ ErrorMsg[d] = <<>>
            /\ pc[d] \in {"logout", "disconnect", "close", "setDone", "emitDone", "returned"}
            /\ (Running /\ pc[d] # "returned") => ENABLED Run(d)
            /\ pc[d] \in {"emitDone", "returned"} => State[d] = "Done"
            /\ pc[d] = "returned" => emitted[d] = <<"EventActive", "EventDone">>

\* A device whose logout went unanswered and whose broker connection was down
\* at cleanup is Done and has emitted became-done.
C21_DoneAfterFailedCleanup ==
    \E d \in Dev : /\ Returned(d)
                   /\ InCleanup(d)
                   /\ LastLog(d).path = "/auth/logout"
                   /\ LastLog(d).status = 0
                   /\ broker[d] = "lost"
                   /\ ~Occurs(ops[d], "disconnect")
                   /\ State[d] = "Done"
                   /\ Occurs(emitted[d], "EventDone")

\* A step function of d.Run returns an error in this step.
StepFails(d) ==
    /\ Len(rets'[d]) = Len(rets[d]) + 1
    /\ rets'[d][Len(rets'[d])] # ""

\* C22: the step in which a step of device d fails puts d into Error and
\* touches nothing else: every other device keeps its state, error text, logs,
\* message counter, position and cancellation signal, and the event-consuming
\* loop, its counters and the process are left as they were; and at any moment
\* every device that has not returned or become Active, whatever has failed
\* elsewhere, has a next step, and the loop keeps receiving.
C22_FailureIsLocal ==
    /\ [][\A d \in Dev :
            StepFails(d) =>
                /\ State'[d] = "Error"
                /\ \A x \in Dev \ {d} :
                     /\ State'[x] = State[x]
                     /\ ErrorMsg'[x] = ErrorMsg[x]
                     /\ HTTPLog'[x] = HTTPLog[x]
                     /\ MQTTMsgs'[x] = MQTTMsgs[x]
                     /\ MQTTCount'[x] = MQTTCount[x]
                     /\ pc'[x] = pc[x]
                     /\ stopCh'[x] = stopCh[x]
                     /\ doneCh'[x] = doneCh[x]
                /\ evPc' = evPc
                /\ proc' = proc
                /\ StopCh' = StopCh
                /\ EventCh' = EventCh
                /\ ActiveDevices' = ActiveDevices
                /\ ErrorCount' = ErrorCount]_vars
    /\ [](\A x \in Dev :
            /\ pc[x] \notin {"returned", "wait"} => ENABLED Onboard(x)
            /\ proc = "running"
            /\ evPc = "select"
            /\ EventCh # <<>> => ENABLED ProcessEvent)

\* One device has failed at a step and returned, another has become Active
\* since, and the loop has counted both.
C22_OneFailedOtherActive ==
    \E d, x \in Dev : /\ State[d] = "Error"
                      /\ Returned(d)
                      /\ State[x] = "Active"
                      /\ pc[x] = "wait"
                      /\ ErrorCount = 1
                      /\ ActiveDevices = 1
                      /\ EventCh = <<>>

\* The firings of the ticker that were neither stored as a delta nor wait in
\* the ticker's channel.
TicksDropped == fired - Len(deltas) - tickCh

\* C23: while the event-consuming loop runs, every firing of the ticker has
\* stored one delta in the rolling buffer or waits to be received: none is
\* dropped, however long the loop stays away from its select.
C23_NoTickDropped == evPc = "select" => TicksDropped = 0

\* What holds of the ticks: each firing received stores exactly one delta and
\* advances the buffer by one slot, and a firing is lost only to a firing
\* already waiting.
C23_OneDeltaPerTickReceived ==
    /\ Len(deltas) = ticks
    /\ windowIdx = ticks
    /\ TicksDropped >= 0
    /\ Len(deltas) + tickCh <= fired

\* The ticker has fired three times while the loop was away, the loop has then
\* stored one delta, and two firings are gone.
C23_TwoTicksGone ==
    /\ evPc = "select"
    /\ fired = 3
    /\ Len(deltas) = 1
    /\ tickCh = 0
    /\ TicksDropped = 2

\* s holds the first elements of t.
IsPrefix(s, t) == Len(s) <= Len(t) /\ s = SubSeq(t, 1, Len(s))

\* The log of a device a snapshot was taken of, as it is now.
LogOf(snap) == IF snap.kind = "http" THEN HTTPLog[snap.dev] ELSE MQTTMsgs[snap.dev]

\* C24: a slice returned by GetHTTPLog or GetMQTTMsgs is changed by no later
\* step, an append to the log it was copied from included; and the logs only
\* grow at the end: every snapshot is a prefix of every later snapshot of the
\* same log, and of the log as it is now.
C24_SnapshotsArePrefixes ==
    /\ [][\A i \in 1..Len(snaps) : snaps'[i] = snaps[i]]_vars
    /\ [](\A i \in 1..Len(snaps) :
            /\ IsPrefix(snaps[i].copy, LogOf(snaps[i]))
            /\ \A j \in (i + 1)..Len(snaps) :
                 (snaps[j].dev = snaps[i].dev /\ snaps[j].kind = snaps[i].kind)
                    => IsPrefix(snaps[i].copy, snaps[j].copy))

\* The message log of a device was read before its first and again after its
\* second message and has grown by a third since; the request log was read
\* before a refresh that has been logged.
C24_ReadWhileAppending ==
    /\ Len(snaps) = 3
    /\ snaps[1].kind = "mqtt" /\ snaps[1].copy = <<>>
    /\ snaps[2].kind = "mqtt" /\ Len(snaps[2].copy) = 2
    /\ snaps[3].kind = "http" /\ Len(snaps[3].copy) = 6
    /\ Len(MQTTMsgs[snaps[1].dev]) = 3
    /\ Len(HTTPLog[snaps[3].dev]) = 7

\* C25: whenever Wait releases its caller, Run has returned and the device is
\* Done or Error: Done with nothing emitted when it was cancelled before a
\* step, Error with became-error emitted when a step failed, Done with
\* became-done emitted after the cleanup of an Active device.
C25_WaitMeansTerminal ==
    \A d \in Dev :
        WaitReturns(d) =>
            /\ pc[d] = "returned"
            /\ State[d] \in {"Done", "Error"}
            /\ \/ State[d] = "Done" /\ emitted[d] = <<>> /\ ~Occurs(stateTrace[d], "Active")
               \/ State[d] = "Error" /\ emitted[d] = <<"EventError">>
               \/ State[d] = "Done" /\ emitted[d] = <<"EventActive", "EventDone">>

\* Wait releases its caller after the cleanup of a device that was Active.
C25_ReleasedAfterCleanup ==
    \E d \in Dev : /\ WaitReturns(d)
                   /\ State[d] = "Done"
                   /\ Occurs(stateTrace[d], "Active")
                   /\ Occurs(ops[d], "logout")

\* Thread t is inside d.Shutdown() of the device its loop is at.
InDeviceShutdown(t) == thPc[t] \in {"ds_select", "ds_close"}

\* A close(d.stopCh) of MockDevice.Shutdown has found the channel closed.
DeviceCloseFaulted ==
    /\ proc = "panicked"
    /\ \E t \in Threads : thPc[t] = "ds_close" /\ Closed(stopCh[thDev[t]])

\* What holds of MockDevice.Shutdown alongside the device's Run: a step of it
\* changes nothing of any device but the cancellation signal of the device it
\* was called on, which is set when the call returns; while the process runs
\* the call always has a
\* next step; and a device whose signal is set always has a next step until
\* its Run has returned, so it does not stay blocked in Active.
C26_SafeAlongsideRun ==
    /\ [][\A t \in Threads :
            (InDeviceShutdown(t) /\ <<thPc[t], thDev[t]>> # <<thPc'[t], thDev'[t]>>) =>
                /\ <<State, ErrorMsg, HTTPLog, MQTTMsgs, MQTTCount, doneCh, client, broker,
                      pc, step, EventCh>>'
                     = <<State, ErrorMsg, HTTPLog, MQTTMsgs, MQTTCount, doneCh, client,
                         broker, pc, step, EventCh>>
                /\ \A d \in Dev :
                     stopCh'[d] # stopCh[d] => (d = thDev[t] /\ Closed(stopCh'[d]))
                /\ thPc'[t] # "ds_close" => Closed(stopCh'[thDev[t]])]_vars
    /\ [](Running =>
            /\ \A t \in Threads : InDeviceShutdown(t) => ENABLED Shutdown(t)
            /\ \A d \in Focus :
                 (Closed(stopCh[d]) /\ pc[d] # "returned") => ENABLED Run(d))

\* C26: MockDevice.Shutdown, called at any point of the device's Run, never
\* faults or blocks, only sets the device's cancellation signal, and the
\* signal is never missed by Run.
C26_ShutdownAlwaysSafe ==
    /\ C26_SafeAlongsideRun
    /\ [](~DeviceCloseFaulted)

\* Both callers of r.Shutdown went past the select of d.Shutdown of the first
\* device while its stopCh was open; one has closed it and gone on, and the
\* close of the other has faulted, with the device blocked in Active.
C26_SecondCloseFaulted ==
    /\ DeviceCloseFaulted
    /\ \E t \in Threads : thPc[t] = "ds_close" /\ thDev[t] = 1
    /\ State[1] = "Active"
    /\ pc[1] = "wait"

\* C27: the error text of a device is written at most once, in the step that
\* puts the device into Error, and is the name of the step that failed with
\* the error it returned; at every moment the text is non-empty exactly when
\* the state is Error.
C27_ErrorTextOnceWithError ==
    /\ [][\A d \in Dev :
            ErrorMsg'[d] # ErrorMsg[d] =>
                /\ ErrorMsg[d] = <<>>
                /\ State[d] # "Error"
                /\ State'[d] = "Error"
                /\ Len(rets'[d]) = Len(rets[d]) + 1
                /\ ErrorMsg'[d] = <<StepName(Len(rets'[d])), rets'[d][Len(rets'[d])]>>
                /\ rets'[d][Len(rets'[d])] # ""]_vars
    /\ [](\A d \in Dev : (ErrorMsg[d] # <<>>) <=> (State[d] = "Error"))

\* A device whose third step failed has its error text naming login, has
\* sent became-error and returned, and was shut down afterwards.
C27_LoginFailureRecorded ==
    \E d \in Dev : /\ State[d] = "Error"
                   /\ ErrorMsg[d] = <<"login", "returned status">>
                   /\ Returned(d)
                   /\ emitted[d] = <<"EventError">>
                   /\ Closed(stopCh[d])

\* C28: when the eight steps of every device have succeeded and no shutdown
\* is requested, then from some moment on every device is Active and
\* Stats.ActiveDevices equals the number of devices, for good.
C28_AllActiveCounted ==
    (\A d \in Dev : AllStepsOK(d))
        ~> [](/\ \A d \in Dev : State[d] = "Active"
              /\ ActiveDevices = NumDevices
              /\ ErrorCount = 0)

\* Every device has succeeded in all steps and is Active, and the loop has
\* consumed every became-active event.
C28_FleetActive ==
    /\ \A d \in Dev : AllStepsOK(d) /\ State[d] = "Active" /\ pc[d] = "wait"
    /\ EventCh = <<>>
    /\ ActiveDevices = NumDevices

\* The results a step function returns when its operation ran out of time:
\* client.Do failing on the deadline of its context, and the two broker
\* tokens not completing within WaitTimeout.
TimedOut(e) == e \in {"transport error", "mqtt connect timeout", "mqtt subscribe timeout"}

\* The device holds a broker connection made by connect() that is up or still
\* being established (one that has gone down is not counted).
HoldsConnection(d) == broker[d] \in {"connected", "connecting"}

\* What holds of a step that ran out of time: it is the last step that ran,
\* the device is in Error with the step named, and became-error is the one
\* event the device emits.
C29_TimeoutIsFailure ==
    \A d \in Dev : \A i \in 1..Len(rets[d]) :
        TimedOut(rets[d][i]) =>
            /\ i = Len(rets[d])
            /\ State[d] = "Error"
            /\ ErrorMsg[d] = <<StepName(i), rets[d][i]>>
            /\ pc[d] \in {"emitError", "returned"}
            /\ pc[d] = "returned" => emitted[d] = <<"EventError">>
            /\ ~Occurs(stateTrace[d], "Active")

\* C29: a step that ends by timeout is handled as a failed step, and a device
\* in a terminal state holds no broker connection, up or being established.
C29_TerminalHoldsNoConnection ==
    /\ C29_TimeoutIsFailure
    /\ \A d \in Dev : Terminal(State[d]) => ~HoldsConnection(d)

\* The connect step of a device timed out; the device is in Error and has
\* returned while the connection connect() started is still being established.
C29_ErrorWhileConnecting ==
    \E d \in Dev : /\ Len(rets[d]) = 7
                   /\ rets[d][7] = "mqtt connect timeout"
                   /\ State[d] = "Error"
                   /\ Returned(d)
                   /\ broker[d] = "connecting"
                   /\ ~Occurs(ops[d], "disconnect")

\* The operations d.Run has invoked since it entered cleanup.
CleanupOps(d) == SubSeq(ops[d], NumSteps + 1, Len(ops[d]))

\* The request log of d holds the record of its logout.
LogoutLogged(d) == \E i \in 1..Len(HTTPLog[d]) : HTTPLog[d][i].path = "/auth/logout"

\* C30: the cleanup of a cancelled Active device runs in the order logout,
\* then publish of "offline" and disconnect (both, in this order, or neither
\* when the broker is not connected), then Done, then became-done: the
\* operations invoked are a prefix of that order, the publish is issued only
\* after the logout request has ended, the state is still Active while an
\* operation of cleanup is pending and Done only after the last of them, and
\* became-done is sent with the state Done.
C30_CleanupInOrder ==
    \A d \in Dev :
        InCleanup(d) =>
            /\ CleanupOps(d) \in {<<"logout">>, <<"logout", "publish offline">>,
                                  <<"logout", "publish offline", "disconnect">>}
            /\ pc[d] = "logout" <=> ~LogoutLogged(d)
            /\ pc[d] = "logout" => CleanupOps(d) = <<"logout">>
            /\ pc[d] = "close" <=> CleanupOps(d) = <<"logout", "publish offline">>
            /\ CleanupPending(d) => State[d] = "Active"
            /\ State[d] = "Done" <=> pc[d] \in {"emitDone", "returned"}
            /\ Occurs(emitted[d], "EventDone") <=> pc[d] = "returned"
            /\ Occurs(ops[d], "disconnect") <=> broker[d] = "closed"

\* A device has logged out, published "offline", disconnected, become Done
\* and emitted became-done.
C30_FullCleanupDone ==
    \E d \in Dev : /\ CleanupOps(d) = <<"logout", "publish offline", "disconnect">>
                   /\ LogoutLogged(d)
                   /\ State[d] = "Done"
                   /\ emitted[d] = <<"EventActive", "EventDone">>
                   /\ Returned(d)

\* d.Run has returned from the cancellation check at the head of an iteration
\* of the loop over steps (the only exit that leaves Done with nothing sent).
ExitedAtCheck(d) == Returned(d) /\ State[d] = "Done" /\ emitted[d] = <<>>

\* The login of d has succeeded and no logout has been accepted since: the
\* backend holds a session of the device.
HasSession(d) ==
    /\ Len(rets[d]) >= 3
    /\ rets[d][3] = ""
    /\ ~\E i \in 1..Len(HTTPLog[d]) :
           HTTPLog[d][i].path = "/auth/logout" /\ LogoutAccepts(HTTPLog[d][i].status)

\* What holds of the cancellation check: a device that left through the check
\* before step k has run the k - 1 steps before it, all with success, and
\* nothing else: not step k or a later one, no operation of cleanup, no event;
\* Done is the only state entered after those of the steps before k.
C31_CancelledExitsDirectly ==
    \A d \in Dev :
        ExitedAtCheck(d) =>
            /\ step[d] \in 1..NumSteps
            /\ Len(rets[d]) = step[d] - 1
            /\ \A i \in 1..Len(rets[d]) : rets[d][i] = ""
            /\ ops[d] = [i \in 1..(step[d] - 1) |-> StepName(i)]
            /\ Len(HTTPLog[d]) = Least(step[d] - 1, 6)
            /\ ~Occurs(stateTrace[d], "Active")
            /\ ~Occurs(stateTrace[d], "Error")
            /\ Closed(doneCh[d])

\* C31: a device that sees its cancellation at the check before step k goes
\* to Done and returns without running step k or a later step, a cleanup
\* operation or a send, and the steps before k have left nothing behind: no
\* backend session and no broker connection.
C31_CancelledLeavesNothing ==
    /\ C31_CancelledExitsDirectly
    /\ \A d \in Dev :
         ExitedAtCheck(d) => (~HasSession(d) /\ ~HoldsConnection(d))

\* A device saw its cancellation at the check before step 8: it is Done and
\* has returned, logged in and connected to the broker, with no logout and
\* no disconnect.
C31_DoneStillConnected ==
    \E d \in Dev : /\ ExitedAtCheck(d)
                   /\ step[d] = 8
                   /\ HasSession(d)
                   /\ broker[d] = "connected"
                   /\ ~Occurs(ops[d], "logout")
                   /\ ~Occurs(ops[d], "disconnect")

\* The devices whose state is one of S.
InStates(S) == {d \in Dev : State[d] \in S}

\* C32: at every moment Stats.ActiveDevices + Stats.ErrorCount is at most
\* Stats.TotalDevices, Stats.ActiveDevices is at most the number of devices
\* that are Active or Done, Stats.ErrorCount is at most the number of devices
\* in Error, neither count is negative, and Stats.TotalDevices is the number
\* of devices of the runner.
C32_CountsWithinFleet ==
    /\ ActiveDevices + ErrorCount <= TotalDevices
    /\ ActiveDevices >= 0
    /\ ActiveDevices <= Cardinality(InStates({"Active", "Done"}))
    /\ ErrorCount >= 0
    /\ ErrorCount <= Cardinality(InStates({"Error"}))
    /\ TotalDevices = Cardinality(Dev)

\* One device is counted in error and another is Done with its became-done
\* event not yet consumed, so that it still counts as active: the two counts
\* add up to the number of devices.
C32_CountsAddUp ==
    /\ ErrorCount = 1
    /\ ActiveDevices = 1
    /\ Cardinality(InStates({"Done"})) = 1
    /\ Cardinality(InStates({"Error"})) = 1
    /\ BufferedOf("EventDone") = 1

\* C33: Stats.MQTTTotal never decreases; the step of a tick sets it to the sum
\* of the devices' message counters as they are at that tick and stores the
\* difference to the previous total as one more delta; every delta stored is
\* at least 0, so the rolling rate is never negative; and the deltas stored
\* so far add up to Stats.MQTTTotal.
C33_TotalIsSumOfDeltas ==
    /\ [][/\ MQTTTotal' >= MQTTTotal
          /\ Len(deltas') > Len(deltas) =>
               /\ MQTTTotal' = SumTo(MQTTCount, NumDevices)
               /\ deltas' = Append(deltas, MQTTTotal' - MQTTTotal)]_vars
    /\ [](/\ \A i \in 1..Len(deltas) : deltas[i] >= 0
          /\ \A i \in 0..(WindowLen - 1) : mqttWindow[i] >= 0
          /\ MsgsPerSec.num >= 0
          /\ DeltaSum(1, Len(deltas)) = MQTTTotal
          /\ MQTTTotal <= SumTo(MQTTCount, NumDevices))

\* Three ticks have been received: one before any message, one after two
\* messages and one after a third, on two devices.
C33_ThreeTicksCounted ==
    /\ deltas = <<0, 2, 1>>
    /\ MQTTTotal = 3
    /\ \A d \in {1, 2} : MQTTCount[d] > 0

\* The slots left over once every category has its floor.
Remainder == asg.n - FloorSum(asg.dist, asg.n, DOMAIN asg.dist)

\* C34: for a distribution summing to 100, the rounding remainder is smaller
\* than the number of categories; while the filler loop runs it is in its
\* first pass over the categories, each category it has visited holding its
\* floor plus one key and every other category its floor; and the returned
\* sequence gives each category floor(pct * n / 100) or one more.
C34_FloorOrOneMore ==
    /\ Remainder >= 0
    /\ Remainder < Cardinality(DOMAIN asg.dist)
    /\ (asg.pc = "fill" /\ Len(asg.weighted) < asg.n) =>
          /\ Len(asg.weighted) - FloorSum(asg.dist, asg.n, DOMAIN asg.dist)
               = Cardinality(DOMAIN asg.dist \ asg.todo)
          /\ \A p \in DOMAIN asg.dist :
               Count(asg.weighted, p) = ((asg.dist[p] * asg.n) \div 100)
                                          + (IF p \in asg.todo THEN 0 ELSE 1)
    /\ asg.pc = "done" =>
          \A p \in DOMAIN asg.dist :
             \/ Count(asg.result, p) = (asg.dist[p] * asg.n) \div 100
             \/ Count(asg.result, p) = ((asg.dist[p] * asg.n) \div 100) + 1

\* A call has returned whose remainder was two slots over three categories:
\* two categories hold one key more than their floor, the third its floor.
C34_TwoRemainderSlots ==
    /\ asg.pc = "done"
    /\ Cardinality(DOMAIN asg.dist) = 3
    /\ Remainder = 2
    /\ Cardinality({p \in DOMAIN asg.dist :
                      Count(asg.result, p) = ((asg.dist[p] * asg.n) \div 100) + 1}) = 2

\* C35: a category whose percentage in the mapping is 0 is assigned no device:
\* the sequence AssignProviders returns holds no key of percentage 0.
C35_ZeroPercentNeverAssigned ==
    asg.pc = "done" =>
        \A i \in 1..Len(asg.result) : asg.dist[asg.result[i]] # 0

\* What holds instead: a key of percentage 0 is returned at most once, and
\* only as one of the remainder slots.
C35_ZeroPercentAtMostOnce ==
    asg.pc = "done" =>
        \A p \in DOMAIN asg.dist :
            asg.dist[p] = 0 =>
                /\ Count(asg.result, p) <= 1
                /\ Count(asg.result, p) = 1 => Remainder > 0

\* A call has returned a sequence that holds a key of percentage 0.
C35_ZeroPercentAssigned ==
    /\ asg.pc = "done"
    /\ \E i \in 1..Len(asg.result) : asg.dist[asg.result[i]] = 0

\* The steps a call of AssignProviders has left at most: the categories still
\* to range over and the appends of the filler, then the loop's last test, the
\* shuffle and the return.
AssignMeasure ==
    CASE asg.pc = "floor" -> 4 + asg.n + Cardinality(asg.todo)
      [] asg.pc = "fill" ->
           3 + (IF Len(asg.weighted) < asg.n THEN asg.n - Len(asg.weighted) ELSE 0)
      [] asg.pc = "shuffle" -> 2
      [] asg.pc = "trim" -> 1
      [] asg.pc = "done" -> 0

\* C36: for every n >= 0 and every non-empty mapping with percentages >= 0,
\* whatever their sum, AssignProviders terminates (every step brings it
\* closer to its return by a measure that cannot fall below 0, and a call
\* that has not returned can take a step), the slice it cuts with
\* weighted[:n] has at least n elements, and it returns exactly n keys, each a
\* key of the mapping.
C36_TerminatesWithN ==
    /\ [][AssignMeasure' < AssignMeasure]_vars
    /\ [](/\ AssignMeasure >= 0
          /\ asg.pc # "done" => ENABLED NextAssign
          /\ asg.pc \in {"shuffle", "trim", "done"} => Len(asg.weighted) >= asg.n
          /\ asg.pc = "done" =>
                /\ Len(asg.result) = asg.n
                /\ \A i \in 1..Len(asg.result) : asg.result[i] \in DOMAIN asg.dist)

\* A call has returned for a mapping summing to less than 100 whose filler
\* loop went through the categories more than once.
C36_FilledInSeveralPasses ==
    /\ asg.pc = "done"
    /\ SumPct(asg.dist, DOMAIN asg.dist) < 100
    /\ Cardinality(DOMAIN asg.dist) >= 2
    /\ Remainder > Cardinality(DOMAIN asg.dist)
    /\ Len(asg.result) = asg.n

\* A call has returned for a mapping summing to more than 100 after cutting
\* off a surplus.
C36_SurplusTrimmed ==
    /\ asg.pc = "done"
    /\ SumPct(asg.dist, DOMAIN asg.dist) > 100
    /\ Len(asg.weighted) > asg.n
    /\ Len(asg.result) = asg.n

====
